---------------------------- MODULE Spec2Model ----------------------------
(***************************************************************************)
(* Signal-Bridge: the signal lifecycle engine.                             *)
(*                                                                         *)
(*   - the state machine (app/engine/state_machine.py),                    *)
(*   - the monitor's hit detector and process_hit                          *)
(*     (app/workers/price_monitor.py, app/main_vercel.py),                 *)
(*   - the price-level event ingress (app/api/webhook_ingest.py),          *)
(*   - the manual close (app/api/signals.py),                              *)
(*   - the historical resolver (app/workers/historical_resolver.py),       *)
(*   - the outcome resolver (app/engine/outcome_resolver.py),              *)
(*   - the monitor's schedule (app/price/smart_scheduler.py,               *)
(*     app/price/price_manager.py),                                        *)
(*   - the notification router and the delivery worker                     *)
(*     (app/notifications/).                                               *)
(*                                                                         *)
(* Optional values (Python None) are sequences: <<>> is None, <<v>> is v.  *)
(* Prices are integers in the signal's own price unit; an r_value is an    *)
(* integer number of 1/10000 R, which is what round(r, 4) keeps.           *)
(***************************************************************************)
EXTENDS Integers, Sequences, FiniteSets, TLC

VARIABLES
    \* ---- state-machine walk (simulate_transitions) ----
    sm_current,     \* the walk's current status
    sm_event,       \* the last event handed to process_event, or "None"
    sm_from,        \* the status that event was applied to, or "None"
    sm_result,      \* the last TransitionResult, or <<>>
    sm_left,        \* the statuses the walk has left so far
    sm_stopped,     \* TRUE once the walk has hit its break
    \* ---- hit detector applied to one input ----
    det_in,         \* the arguments of _detect_event
    det_impl,       \* which copy is called: "worker" or "cron"
    det_out,        \* the event returned, or "None"
    det_done,       \* TRUE once the detector has been applied
    \* ---- one stored signal and its writers ----
    sig,            \* the signal's levels, fixed when it is stored
    row,            \* its row in canonical_signals
    events,         \* its rows in signal_events, in insertion order
    now,            \* the clock
    mon,            \* the monitor: pc and the fetched row
    hist,           \* the historical resolver: "idle" or "queried"
    examined,       \* the prices the monitor examined (when tracing)
    tracing,        \* whether examined is recorded
    notified,       \* the events handed to trigger_notification, in order
    \* ---- the monitor's schedule over several stored signals ----
    sc_rows,        \* id -> the row's status, next_poll_at and symbol
    sc_now,         \* the clock
    sc_pc,          \* the cycle: "idle" or "fetched" (waiting for prices)
    sc_taken,       \* the rows the cycle fetched, in the order returned
    sc_examined,    \* the ids the last cycle examined, in order
    sc_limit,       \* the limit of the monitor's query
    \* ---- outbound delivery ----
    nf_subs,        \* id -> the row of outbound_webhooks
    nf_events,      \* event -> its provider, its kind, whether routed
    nf_dels,        \* <<event, subscription>> -> the delivery task
    nf_log,         \* <<event, subscription>> -> its rows of notification_logs
    nf_sem,         \* the value of the pool's semaphore
    nf_now,         \* the clock
    \* ---- the idempotency key ----
    ik_headers,     \* subscription -> its custom headers
    ik_payload,     \* event -> None, or the event_id of its payload
    ik_requests,    \* the HTTP requests posted
    \* ---- the structured ingress ----
    ig_providers,   \* the active rows of providers
    ig_signals,     \* the rows of canonical_signals, in insertion order
    ig_events,      \* the rows of signal_events, in insertion order
    ig_response,    \* None, or the HTTP status of the last response
    \* ---- a pure function applied to one input ----
    ap_in,          \* the arguments
    ap_out,         \* None, or the value returned
    \* ---- one adapter's rate limiter ----
    rl_now,         \* the clock
    rl_requests,    \* RateLimiter.requests: the times it holds
    rl_sleepers,    \* the wake times of the callers asleep in wait_if_needed
    rl_proceeded,   \* the times at which calls of wait_if_needed returned
    \* ---- the streaming adapter's worker for one symbol ----
    ws_pc,          \* "connect", "sleep" or "stopped"
    ws_attempt,     \* _stream_worker's reconnect_attempt
    ws_failures,    \* the failed or dropped connections since the last good one
    ws_slept,       \* None, or the delay slept since the last connection
    \* ---- the monitor's task and its shutdown ----
    mt_pc,          \* where the task is: "sleep", "prices", "event_written", "cancelled"
    mt_current,     \* None, or the signal whose hit is being processed
    mt_events,      \* signal -> the number of its events recorded by the task
    mt_updates      \* signal -> the number of its status updates applied by the task

sm_vars == <<sm_current, sm_event, sm_from, sm_result, sm_left, sm_stopped>>

det_vars == <<det_in, det_impl, det_out, det_done>>

life_vars == <<sig, row, events, now, mon, hist, examined, tracing, notified>>

sched_vars == <<sc_rows, sc_now, sc_pc, sc_taken, sc_examined, sc_limit>>

notif_vars == <<nf_subs, nf_events, nf_dels, nf_log, nf_sem, nf_now>>

key_vars == <<ik_headers, ik_payload, ik_requests>>

ingest_vars == <<ig_providers, ig_signals, ig_events, ig_response>>

ap_vars == <<ap_in, ap_out>>

rate_vars == <<rl_now, rl_requests, rl_sleepers, rl_proceeded>>

ws_vars == <<ws_pc, ws_attempt, ws_failures, ws_slept>>

task_vars == <<mt_pc, mt_current, mt_events, mt_updates>>

vars == <<sm_vars, det_vars, life_vars, sched_vars, notif_vars, key_vars, ingest_vars,
          ap_vars, rate_vars, ws_vars, task_vars>>

\* What each part of the model leaves alone.
but_sm == <<det_vars, life_vars, sched_vars, notif_vars, key_vars, ingest_vars, ap_vars, rate_vars, ws_vars, task_vars>>

but_det == <<sm_vars, life_vars, sched_vars, notif_vars, key_vars, ingest_vars, ap_vars, rate_vars, ws_vars, task_vars>>

but_life == <<sm_vars, det_vars, sched_vars, notif_vars, key_vars, ingest_vars, ap_vars, rate_vars, ws_vars, task_vars>>

but_sched == <<sm_vars, det_vars, life_vars, notif_vars, key_vars, ingest_vars, ap_vars, rate_vars, ws_vars, task_vars>>

but_notif == <<sm_vars, det_vars, life_vars, sched_vars, key_vars, ingest_vars, ap_vars, rate_vars, ws_vars, task_vars>>

but_key == <<sm_vars, det_vars, life_vars, sched_vars, notif_vars, ingest_vars, ap_vars, rate_vars, ws_vars, task_vars>>

but_ingest == <<sm_vars, det_vars, life_vars, sched_vars, notif_vars, key_vars, ap_vars, rate_vars, ws_vars, task_vars>>

but_ap == <<sm_vars, det_vars, life_vars, sched_vars, notif_vars, key_vars, ingest_vars, rate_vars, ws_vars, task_vars>>

but_rate == <<sm_vars, det_vars, life_vars, sched_vars, notif_vars, key_vars, ingest_vars, ap_vars, ws_vars, task_vars>>

but_ws == <<sm_vars, det_vars, life_vars, sched_vars, notif_vars, key_vars, ingest_vars, ap_vars,
            rate_vars, task_vars>>

but_task == <<sm_vars, det_vars, life_vars, sched_vars, notif_vars, key_vars, ingest_vars, ap_vars,
              rate_vars, ws_vars>>

---------------------------------------------------------------------------
(* Optional values *)

None == <<>>

Some(v) == <<v>>

Val(o) == o[1]

---------------------------------------------------------------------------
(* app/models/canonical_signal.py: the enumerations *)

SignalStatus ==
    {"PENDING", "ACTIVE", "TP1_HIT", "TP2_HIT", "TP3_HIT", "SL_HIT", "CLOSED", "INVALID"}

EventType ==
    {"ENTRY_REGISTERED", "ENTRY_HIT", "TP1_HIT", "TP2_HIT", "TP3_HIT", "SL_HIT",
     "PRICE_UPDATE", "MANUAL_CLOSE", "EXPIRED", "VALIDATION_FAILED"}

---------------------------------------------------------------------------
(* app/engine/state_machine.py *)

\* A transition table with a backward edge TP1_HIT -> ACTIVE and an edge
\* out of TP3_HIT dropped.
VALID_TRANSITIONS_Backward ==
    [s \in SignalStatus |->
        CASE s = "PENDING" -> {"ACTIVE", "INVALID", "CLOSED"}
          [] s = "ACTIVE"  -> {"TP1_HIT", "SL_HIT", "CLOSED"}
          [] s = "TP1_HIT" -> {"TP2_HIT", "SL_HIT", "CLOSED", "ACTIVE"}
          [] s = "TP2_HIT" -> {"TP3_HIT", "SL_HIT", "CLOSED"}
          [] s = "TP3_HIT" -> {}
          [] OTHER         -> {}]

VALID_TRANSITIONS ==
    [s \in SignalStatus |->
        CASE s = "PENDING" -> {"ACTIVE", "INVALID", "CLOSED"}
          [] s = "ACTIVE"  -> {"TP1_HIT", "SL_HIT", "CLOSED"}
          [] s = "TP1_HIT" -> {"TP2_HIT", "SL_HIT", "CLOSED"}
          [] s = "TP2_HIT" -> {"TP3_HIT", "SL_HIT", "CLOSED"}
          [] s = "TP3_HIT" -> {"CLOSED"}
          [] s = "SL_HIT"  -> {}
          [] s = "CLOSED"  -> {}
          [] s = "INVALID" -> {}]

\* EVENT_TO_STATUS.get(event_type): <<>> for an event kind with no entry.
EVENT_TO_STATUS(event_type) ==
    CASE event_type = "ENTRY_HIT"         -> Some("ACTIVE")
      [] event_type = "TP1_HIT"           -> Some("TP1_HIT")
      [] event_type = "TP2_HIT"           -> Some("TP2_HIT")
      [] event_type = "TP3_HIT"           -> Some("TP3_HIT")
      [] event_type = "SL_HIT"            -> Some("SL_HIT")
      [] event_type = "MANUAL_CLOSE"      -> Some("CLOSED")
      [] event_type = "VALIDATION_FAILED" -> Some("INVALID")
      [] event_type = "EXPIRED"           -> Some("CLOSED")
      [] OTHER                            -> None

TERMINAL_STATES == {"CLOSED", "INVALID", "SL_HIT"}

is_terminal(status) == status \in TERMINAL_STATES

\* A can_transition that allows every edge.
can_transition_Any(current, target) == TRUE

can_transition(current, target) ==
    IF current \notin DOMAIN VALID_TRANSITIONS
    THEN FALSE
    ELSE target \in VALID_TRANSITIONS[current]

TransitionResult(new_status, did_transition, reason, terminal) ==
    [new_status |-> new_status, did_transition |-> did_transition,
     reason |-> reason, is_terminal |-> terminal]

\* A process_event whose "already in target" branch reports a transition.
process_event_Repeat(current_status, event_type) ==
    LET target == EVENT_TO_STATUS(event_type) IN
    IF target = None
    THEN TransitionResult(current_status, FALSE, "unknown_event", is_terminal(current_status))
    ELSE IF current_status = Val(target)
    THEN TransitionResult(current_status, TRUE, "already", is_terminal(current_status))
    ELSE IF ~can_transition(current_status, Val(target))
    THEN TransitionResult(current_status, FALSE, "invalid", is_terminal(current_status))
    ELSE IF is_terminal(current_status)
    THEN TransitionResult(current_status, FALSE, "terminal", TRUE)
    ELSE TransitionResult(Val(target), TRUE, "transitioned", is_terminal(Val(target)))

process_event(current_status, event_type) ==
    LET target == EVENT_TO_STATUS(event_type) IN
    IF target = None
    THEN TransitionResult(current_status, FALSE, "unknown_event", is_terminal(current_status))
    ELSE IF current_status = Val(target)
    THEN TransitionResult(current_status, FALSE, "already", is_terminal(current_status))
    ELSE IF ~can_transition(current_status, Val(target))
    THEN TransitionResult(current_status, FALSE, "invalid", is_terminal(current_status))
    ELSE IF is_terminal(current_status)
    THEN TransitionResult(current_status, FALSE, "terminal", TRUE)
    ELSE TransitionResult(Val(target), TRUE, "transitioned", is_terminal(Val(target)))

---------------------------------------------------------------------------
(* simulate_transitions: a walk of process_event from any start status.    *)

SMIdle ==
    /\ sm_current = "PENDING"
    /\ sm_event = "None"
    /\ sm_from = "None"
    /\ sm_result = None
    /\ sm_left = {}
    /\ sm_stopped = FALSE

SMInit ==
    /\ sm_current \in SignalStatus
    /\ sm_event = "None"
    /\ sm_from = "None"
    /\ sm_result = None
    /\ sm_left = {}
    /\ sm_stopped = FALSE

\* One iteration of the loop over events.
SimulateStep(event) ==
    /\ ~sm_stopped
    /\ LET result == process_event(sm_current, event) IN
        /\ sm_result' = Some(result)
        /\ sm_event' = event
        /\ sm_from' = sm_current
        /\ sm_current' = result.new_status
        /\ sm_left' = IF result.new_status # sm_current
                      THEN sm_left \cup {sm_current}
                      ELSE sm_left
        /\ sm_stopped' = (result.is_terminal /\ result.did_transition)

SMNext == \E event \in EventType : SimulateStep(event)

---------------------------------------------------------------------------
(* app/workers/price_monitor.py and app/main_vercel.py: the hit detector   *)

SignalDirection == {"LONG", "SHORT"}

\* A detector that looks at the stop-loss in every status after PENDING.
detect_event_AnyStatus(status, direction, current_price, entry_price, sl, tp1, tp2, tp3) ==
    LET is_long == (direction = "LONG") IN
    CASE status = "PENDING" ->
            IF is_long /\ current_price <= entry_price THEN "ENTRY_HIT"
            ELSE IF ~is_long /\ current_price >= entry_price THEN "ENTRY_HIT"
            ELSE "None"
      [] OTHER ->
            IF is_long /\ current_price <= sl THEN "SL_HIT"
            ELSE IF ~is_long /\ current_price >= sl THEN "SL_HIT"
            ELSE "None"

\* A detector that looks at the take-profit level before the stop-loss.
detect_event_TPFirst(status, direction, current_price, entry_price, sl, tp1, tp2, tp3) ==
    LET is_long == (direction = "LONG") IN
    CASE status = "PENDING" ->
            IF is_long /\ current_price <= entry_price THEN "ENTRY_HIT"
            ELSE IF ~is_long /\ current_price >= entry_price THEN "ENTRY_HIT"
            ELSE "None"
      [] status = "ACTIVE" ->
            IF is_long /\ current_price >= tp1 THEN "TP1_HIT"
            ELSE IF ~is_long /\ current_price <= tp1 THEN "TP1_HIT"
            ELSE IF is_long /\ current_price <= sl THEN "SL_HIT"
            ELSE IF ~is_long /\ current_price >= sl THEN "SL_HIT"
            ELSE "None"
      [] status = "TP1_HIT" ->
            IF tp2 # None /\ is_long /\ current_price >= Val(tp2) THEN "TP2_HIT"
            ELSE IF tp2 # None /\ ~is_long /\ current_price <= Val(tp2) THEN "TP2_HIT"
            ELSE IF is_long /\ current_price <= sl THEN "SL_HIT"
            ELSE IF ~is_long /\ current_price >= sl THEN "SL_HIT"
            ELSE "None"
      [] status = "TP2_HIT" ->
            IF tp3 # None /\ is_long /\ current_price >= Val(tp3) THEN "TP3_HIT"
            ELSE IF tp3 # None /\ ~is_long /\ current_price <= Val(tp3) THEN "TP3_HIT"
            ELSE IF is_long /\ current_price <= sl THEN "SL_HIT"
            ELSE IF ~is_long /\ current_price >= sl THEN "SL_HIT"
            ELSE "None"
      [] OTHER -> "None"

\* PriceMonitorWorker._detect_event. tp2 and tp3 are optional: the caller
\* passes None for an absent level, and "if tp2:" tests presence.
detect_event(status, direction, current_price, entry_price, sl, tp1, tp2, tp3) ==
    LET is_long == (direction = "LONG") IN
    CASE status = "PENDING" ->
            IF is_long /\ current_price <= entry_price THEN "ENTRY_HIT"
            ELSE IF ~is_long /\ current_price >= entry_price THEN "ENTRY_HIT"
            ELSE "None"
      [] status = "ACTIVE" ->
            IF is_long /\ current_price <= sl THEN "SL_HIT"
            ELSE IF ~is_long /\ current_price >= sl THEN "SL_HIT"
            ELSE IF is_long /\ current_price >= tp1 THEN "TP1_HIT"
            ELSE IF ~is_long /\ current_price <= tp1 THEN "TP1_HIT"
            ELSE "None"
      [] status = "TP1_HIT" ->
            IF is_long /\ current_price <= sl THEN "SL_HIT"
            ELSE IF ~is_long /\ current_price >= sl THEN "SL_HIT"
            ELSE IF tp2 # None
            THEN IF is_long /\ current_price >= Val(tp2) THEN "TP2_HIT"
                 ELSE IF ~is_long /\ current_price <= Val(tp2) THEN "TP2_HIT"
                 ELSE "None"
            ELSE "None"
      [] status = "TP2_HIT" ->
            IF is_long /\ current_price <= sl THEN "SL_HIT"
            ELSE IF ~is_long /\ current_price >= sl THEN "SL_HIT"
            ELSE IF tp3 # None
            THEN IF is_long /\ current_price >= Val(tp3) THEN "TP3_HIT"
                 ELSE IF ~is_long /\ current_price <= Val(tp3) THEN "TP3_HIT"
                 ELSE "None"
            ELSE "None"
      [] OTHER -> "None"

\* main_vercel._detect_event: the cron copy, which takes is_long.
cron_detect_event(status, is_long, price, entry, sl, tp1, tp2, tp3) ==
    CASE status = "PENDING" ->
            IF is_long /\ price <= entry THEN "ENTRY_HIT"
            ELSE IF ~is_long /\ price >= entry THEN "ENTRY_HIT"
            ELSE "None"
      [] status = "ACTIVE" ->
            IF is_long /\ price <= sl THEN "SL_HIT"
            ELSE IF ~is_long /\ price >= sl THEN "SL_HIT"
            ELSE IF is_long /\ price >= tp1 THEN "TP1_HIT"
            ELSE IF ~is_long /\ price <= tp1 THEN "TP1_HIT"
            ELSE "None"
      [] status = "TP1_HIT" ->
            IF is_long /\ price <= sl THEN "SL_HIT"
            ELSE IF ~is_long /\ price >= sl THEN "SL_HIT"
            ELSE IF tp2 # None
            THEN IF is_long /\ price >= Val(tp2) THEN "TP2_HIT"
                 ELSE IF ~is_long /\ price <= Val(tp2) THEN "TP2_HIT"
                 ELSE "None"
            ELSE "None"
      [] status = "TP2_HIT" ->
            IF is_long /\ price <= sl THEN "SL_HIT"
            ELSE IF ~is_long /\ price >= sl THEN "SL_HIT"
            ELSE IF tp3 # None
            THEN IF is_long /\ price >= Val(tp3) THEN "TP3_HIT"
                 ELSE IF ~is_long /\ price <= Val(tp3) THEN "TP3_HIT"
                 ELSE "None"
            ELSE "None"
      [] OTHER -> "None"

\* Levels the detector is tried on are 1..MaxLevel, prices 0..MaxLevel+1.
MaxLevel == 3

DetLevels == 1..MaxLevel

DetPrices == 0..(MaxLevel + 1)

DetOptLevels == {None} \cup {Some(l) : l \in DetLevels}

DetInputs ==
    [status : SignalStatus, direction : SignalDirection, current_price : DetPrices,
     entry_price : DetLevels, sl : DetLevels, tp1 : DetLevels,
     tp2 : DetOptLevels, tp3 : DetOptLevels]

DetIdle ==
    /\ det_in = None
    /\ det_impl = "worker"
    /\ det_out = "None"
    /\ det_done = FALSE

DetInit ==
    /\ det_in \in {Some(i) : i \in DetInputs}
    /\ det_impl \in {"worker", "cron"}
    /\ det_out = "None"
    /\ det_done = FALSE

\* _check_signal's call of the worker's detector.
DetectWorker ==
    /\ ~det_done
    /\ det_impl = "worker"
    /\ LET a == Val(det_in) IN
        det_out' = detect_event(a.status, a.direction, a.current_price, a.entry_price,
                                a.sl, a.tp1, a.tp2, a.tp3)
    /\ det_done' = TRUE
    /\ UNCHANGED <<det_in, det_impl>>

\* cron_poll_prices' call of the cron copy, with is_long = (direction == "LONG").
DetectCron ==
    /\ ~det_done
    /\ det_impl = "cron"
    /\ LET a == Val(det_in) IN
        det_out' = cron_detect_event(a.status, a.direction = "LONG", a.current_price,
                                     a.entry_price, a.sl, a.tp1, a.tp2, a.tp3)
    /\ det_done' = TRUE
    /\ UNCHANGED <<det_in, det_impl>>

---------------------------------------------------------------------------
(* The stored signal: one row of canonical_signals and its signal_events.  *)
(* Every operation below addresses one row by its id and rows do not       *)
(* interact, so a behaviour follows one signal, drawn from the accepted    *)
(* signals at Init. The scheduler's columns (next_poll_at, last_price_at)  *)
(* are not kept: a due signal is one the monitor may fetch.                *)

Abs(x) == IF x < 0 THEN 0 - x ELSE x

Max(a, b) == IF a >= b THEN a ELSE b

Min(a, b) == IF a <= b THEN a ELSE b

\* round(num / den, 4) in units of 1/10000, den > 0: the nearest integer to
\* num * 10000 / den, a tie going to the even one.
Round4(num, den) ==
    LET n == num * 10000
        q == n \div den
        r == n - q * den
    IN  IF 2 * r < den THEN q
        ELSE IF 2 * r > den THEN q + 1
        ELSE IF q % 2 = 0 THEN q ELSE q + 1

\* CanonicalSignal.calculate_risk_metrics: risk_distance.
calculate_risk_metrics(entry_price, sl) == Abs(entry_price - sl)

\* A signal as the normalizer builds it and _store_signal keeps it.
CanonicalSignal(direction, entry_price, sl, tp1, tp2, tp3) ==
    [direction |-> direction, entry_price |-> entry_price, sl |-> sl, tp1 |-> tp1,
     tp2 |-> tp2, tp3 |-> tp3,
     risk_distance |-> calculate_risk_metrics(entry_price, sl)]

\* Signals the validator accepts: a LONG with three targets, a SHORT with
\* three targets (prices in 1/10000), a LONG with tp1 only.
AcceptedSignals ==
    {CanonicalSignal("LONG", 100, 95, 105, Some(110), Some(115)),
     CanonicalSignal("SHORT", 11000, 11050, 10950, Some(10900), Some(10850)),
     CanonicalSignal("LONG", 100, 95, 105, None, None)}

\* The TP levels present, and one price step past a level on the profit
\* side / on the loss side.
TpLevels(s) ==
    {s.tp1} \cup (IF s.tp2 # None THEN {Val(s.tp2)} ELSE {})
            \cup (IF s.tp3 # None THEN {Val(s.tp3)} ELSE {})

Past(s, level) == IF s.direction = "LONG" THEN level + 1 ELSE level - 1

Short(s, level) == IF s.direction = "LONG" THEN level - 1 ELSE level + 1

\* Prices a price source may quote for the signal's symbol: the entry, one
\* step beyond the stop, and one step past each target.
QuotedPrices(s) ==
    {s.entry_price, Short(s, s.sl)} \cup {Past(s, l) : l \in TpLevels(s)}

\* The row as _store_signal inserts it for an accepted signal.
NewRow ==
    [status |-> "PENDING", activated_at |-> None, closed_at |-> None,
     close_reason |-> None, exit_price |-> None, r_value |-> None,
     pnl_pct |-> None, last_price |-> None,
     max_favorable |-> None, max_adverse |-> None]

SignalEvent(event_type, price, source, event_time) ==
    [event_type |-> event_type, price |-> price, source |-> source,
     event_time |-> event_time]

\* The clock stops at MaxNow: no handler that stamps a time runs after it.
MaxNow == 4

\* What the monitor keeps of a fetched row (signal_data).
Snapshot(r) ==
    [status |-> r.status, max_favorable |-> r.max_favorable,
     max_adverse |-> r.max_adverse]

MonitorIdle == [pc |-> "idle", snap |-> None]

\* ingest_tradingview for an accepted signal: the row stored PENDING and the
\* ENTRY_REGISTERED event, at time 0.
LifeInit ==
    /\ sig \in AcceptedSignals
    /\ row = NewRow
    /\ events = <<SignalEvent("ENTRY_REGISTERED", Some(sig.entry_price), "TRADINGVIEW", 0)>>
    /\ now = 1
    /\ mon = MonitorIdle
    /\ hist = "idle"
    /\ examined = <<>>
    /\ notified = <<>>

LifeIdle ==
    /\ sig = None
    /\ row = None
    /\ events = <<>>
    /\ now = 0
    /\ mon = MonitorIdle
    /\ hist = "idle"
    /\ examined = <<>>
    /\ notified = <<>>
    /\ tracing = FALSE

---------------------------------------------------------------------------
(* app/workers/price_monitor.py: the monitor cycle                         *)

\* ValidationEngine._check_price_sanity: TRUE when it appends no error.
check_price_sanity(s) ==
    IF s.direction = "LONG"
    THEN /\ ~(s.entry_price <= s.sl)
         /\ ~(s.tp1 <= s.entry_price)
         /\ ~(s.tp2 # None /\ Val(s.tp2) <= s.tp1)
         /\ ~(s.tp3 # None /\ s.tp2 # None /\ Val(s.tp3) <= Val(s.tp2))
    ELSE /\ ~(s.entry_price >= s.sl)
         /\ ~(s.tp1 >= s.entry_price)
         /\ ~(s.tp2 # None /\ Val(s.tp2) >= s.tp1)
         /\ ~(s.tp3 # None /\ s.tp2 # None /\ Val(s.tp3) >= Val(s.tp2))

\* Signals as the structured ingress normalizes them: the accepted ones, a
\* LONG whose stop is above its entry and a SHORT whose stop is below it.
SubmittedSignals ==
    AcceptedSignals \cup
        {CanonicalSignal("LONG", 100, 110, 105, None, None),
         CanonicalSignal("SHORT", 100, 90, 95, None, None)}

\* ingest_tradingview after normalization: a signal that fails validation is
\* stored with status INVALID and no event; any other is stored PENDING with
\* its ENTRY_REGISTERED event.
StoredInit ==
    /\ sig \in SubmittedSignals
    /\ row = IF check_price_sanity(sig) THEN NewRow
                                        ELSE [NewRow EXCEPT !.status = "INVALID"]
    /\ events = IF check_price_sanity(sig)
                THEN <<SignalEvent("ENTRY_REGISTERED", Some(sig.entry_price), "TRADINGVIEW", 0)>>
                ELSE <<>>
    /\ now = 1
    /\ mon = MonitorIdle
    /\ hist = "idle"
    /\ examined = <<>>
    /\ notified = <<>>

MonitoredStatuses == {"PENDING", "ACTIVE", "TP1_HIT", "TP2_HIT", "TP3_HIT"}

\* _fetch_signals_due: the row is fetched when its stored status is one the
\* monitor polls (and it is due); the cycle then awaits the price fetch.
MonitorFetch ==
    /\ mon.pc = "idle"
    /\ row.status \in MonitoredStatuses
    /\ mon' = [pc |-> "fetched", snap |-> Some(Snapshot(row))]
    /\ UNCHANGED <<sig, row, events, now, hist, examined, tracing, notified>>

\* _run_single_cycle with no quote for the symbol: the signal is skipped.
MonitorNoPrice ==
    /\ mon.pc = "fetched"
    /\ mon' = MonitorIdle
    /\ UNCHANGED <<sig, row, events, now, hist, examined, tracing, notified>>

\* _update_excursions, from the fetched row's extremes.
update_excursions(r, snap, direction, price) ==
    LET mfe == snap.max_favorable
        mae == snap.max_adverse
    IN  IF direction = "LONG"
        THEN [r EXCEPT
                !.max_favorable = IF mfe = None \/ price > Val(mfe) THEN Some(price) ELSE @,
                !.max_adverse = IF mae = None \/ price < Val(mae) THEN Some(price) ELSE @]
        ELSE [r EXCEPT
                !.max_favorable = IF mfe = None \/ price < Val(mfe) THEN Some(price) ELSE @,
                !.max_adverse = IF mae = None \/ price > Val(mae) THEN Some(price) ELSE @]

\* The r_value and pnl_pct process_hit computes for a close at hit_price.
hit_r_value(s, hit_price) ==
    IF s.direction = "LONG"
    THEN Round4(hit_price - s.entry_price, s.risk_distance)
    ELSE Round4(s.entry_price - hit_price, s.risk_distance)

hit_pnl_pct(s, hit_price) ==
    IF s.direction = "LONG"
    THEN Round4((hit_price - s.entry_price) * 100, s.entry_price)
    ELSE Round4((s.entry_price - hit_price) * 100, s.entry_price)

\* A process_hit update that also closes the signal on TP3_HIT.
hit_update_ClosesOnTP3(r, s, tr, event_type, hit_price, t) ==
    LET r1 == [r EXCEPT !.status = tr.new_status]
        r2 == IF event_type = "ENTRY_HIT" THEN [r1 EXCEPT !.activated_at = Some(t)] ELSE r1
    IN  IF is_terminal(tr.new_status) \/ tr.new_status \in {"SL_HIT", "TP3_HIT"}
        THEN [r2 EXCEPT !.closed_at = Some(t),
                        !.close_reason = Some(tr.new_status),
                        !.exit_price = Some(hit_price),
                        !.r_value = IF s.risk_distance > 0
                                    THEN Some(hit_r_value(s, hit_price)) ELSE @,
                        !.pnl_pct = IF s.risk_distance > 0
                                    THEN Some(hit_pnl_pct(s, hit_price)) ELSE @]
        ELSE r2

\* _process_hit's update_data applied to the stored row.
hit_update(r, s, tr, event_type, hit_price, t) ==
    LET r1 == [r EXCEPT !.status = tr.new_status]
        r2 == IF event_type = "ENTRY_HIT" THEN [r1 EXCEPT !.activated_at = Some(t)] ELSE r1
    IN  IF is_terminal(tr.new_status) \/ tr.new_status = "SL_HIT"
        THEN [r2 EXCEPT !.closed_at = Some(t),
                        !.close_reason = Some(tr.new_status),
                        !.exit_price = Some(hit_price),
                        !.r_value = IF s.risk_distance > 0
                                    THEN Some(hit_r_value(s, hit_price)) ELSE @,
                        !.pnl_pct = IF s.risk_distance > 0
                                    THEN Some(hit_pnl_pct(s, hit_price)) ELSE @]
        ELSE r2

\* trigger_notification(signal_id, event_type, price): the handler makes a
\* task of NotificationEngine.on_signal_event for the event.
trigger_notification(sent, event_type, price) ==
    Append(sent, [event_type |-> event_type, price |-> price])

\* _process_hit: the state machine runs on the fetched status; a refusal
\* returns; a transition inserts the event, updates the row, then the
\* excursions. The result is the new <<row, events>>.
process_hit(r, evs, s, snap, event_type, hit_price, t) ==
    LET tr == process_event(snap.status, event_type) IN
    IF ~tr.did_transition
    THEN <<r, evs>>
    ELSE LET evs1 == Append(evs, SignalEvent(event_type, Some(hit_price), "POLLING", t))
             r1 == hit_update(r, s, tr, event_type, hit_price, t)
             r2 == IF event_type # "ENTRY_HIT"
                   THEN update_excursions(r1, snap, s.direction, hit_price)
                   ELSE r1
         IN  <<r2, evs1>>

\* How many examinations a traced behaviour records.
MaxExamined == 4

\* _check_signal with a quote: last_price is written, the detector runs on
\* the fetched status, and a detected event goes to _process_hit.
MonitorCheck(current_price) ==
    /\ mon.pc = "fetched"
    /\ tracing => Len(examined) < MaxExamined
    /\ LET snap == Val(mon.snap)
           r0 == [row EXCEPT !.last_price = Some(current_price)]
           event_type == detect_event(snap.status, sig.direction, current_price,
                                      sig.entry_price, sig.sl, sig.tp1, sig.tp2, sig.tp3)
           tr == process_event(snap.status, event_type)
           out == IF event_type # "None"
                  THEN process_hit(r0, events, sig, snap, event_type, current_price, now)
                  ELSE <<r0, events>>
           stamped == event_type # "None" /\ tr.did_transition
       IN  /\ stamped => (tracing \/ now < MaxNow)
           /\ row' = out[1]
           /\ events' = out[2]
           /\ now' = IF stamped THEN now + 1 ELSE now
           /\ notified' = IF stamped
                           THEN trigger_notification(notified, event_type, current_price)
                           ELSE notified
    /\ mon' = MonitorIdle
    /\ examined' = IF tracing THEN Append(examined, current_price) ELSE examined
    /\ UNCHANGED <<sig, hist, tracing>>

---------------------------------------------------------------------------
(* app/api/webhook_ingest.py: the price-level event ingress                *)

\* Prices a price-level event may carry: the stop.
EventPrices(s) == {s.sl}

\* The event's own timestamp: absent, or the time the signal was sent.
EventTimestamps == {None, Some(0)}

\* ingest_pinescript_event's update_data applied to the stored row.
pinescript_update(r, new_status, event_type, price, t) ==
    LET r1 == [r EXCEPT !.status = new_status]
        r2 == IF new_status \in {"SL_HIT", "CLOSED", "TP3_HIT"}
              THEN [r1 EXCEPT !.closed_at = Some(t),
                              !.close_reason = Some(new_status),
                              !.exit_price = Some(price)]
              ELSE r1
    IN  IF event_type = "ENTRY_HIT" THEN [r2 EXCEPT !.activated_at = Some(t)] ELSE r2

\* ingest_pinescript_event: EventType(event.event_type) takes any of the ten
\* kinds; the state machine runs on the stored status; on a transition the
\* event is inserted and the row updated. A refusal writes nothing.
PineScriptEvent(event_type, price, timestamp) ==
    LET tr == process_event(row.status, event_type) IN
    /\ tr.did_transition
    /\ now < MaxNow
    /\ events' = Append(events,
                    SignalEvent(event_type, Some(price), "PINESCRIPT",
                                IF timestamp # None THEN Val(timestamp) ELSE now))
    /\ row' = pinescript_update(row, tr.new_status, event_type, price, now)
    /\ now' = now + 1
    /\ UNCHANGED <<sig, mon, hist, examined, tracing, notified>>

\* The same request when the state machine refuses the event.
PineScriptRefused_Records(event_type) ==
    /\ ~process_event(row.status, event_type).did_transition
    /\ now < MaxNow
    /\ events' = Append(events, SignalEvent(event_type, None, "PINESCRIPT", now))
    /\ now' = now + 1
    /\ UNCHANGED <<sig, row, mon, hist, examined, tracing, notified>>

PineScriptRefused(event_type) ==
    /\ ~process_event(row.status, event_type).did_transition
    /\ UNCHANGED <<sig, row, events, now, mon, hist, examined, tracing, notified>>

---------------------------------------------------------------------------
(* app/api/signals.py: the manual close                                    *)

\* close_signal's "Already closed?" test.
close_allowed(status) == status # "CLOSED"

\* close_signal: unless the stored status is CLOSED, the row is set CLOSED
\* with closed_at and close_reason, and a MANUAL_CLOSE event is inserted.
CloseSignal ==
    /\ close_allowed(row.status)
    /\ now < MaxNow
    /\ row' = [row EXCEPT !.status = "CLOSED", !.closed_at = Some(now),
                          !.close_reason = Some("MANUAL_CLOSE")]
    /\ events' = Append(events, SignalEvent("MANUAL_CLOSE", None, "API", now))
    /\ now' = now + 1
    /\ UNCHANGED <<sig, mon, hist, examined, tracing, notified>>

\* close_signal answering 400 for a signal that is already CLOSED.
CloseRefused ==
    /\ ~close_allowed(row.status)
    /\ UNCHANGED <<sig, row, events, now, mon, hist, examined, tracing, notified>>

---------------------------------------------------------------------------
(* app/workers/historical_resolver.py                                      *)

HistoricalCandle(open, high, low, close) ==
    [open |-> open, high |-> high, low |-> low, close |-> close]

\* The target farthest from the entry.
FarTarget(s) ==
    CHOOSE x \in TpLevels(s) :
        \A y \in TpLevels(s) : Abs(y - s.entry_price) <= Abs(x - s.entry_price)

\* Hourly candles the price source may return for the signal's symbol: a
\* flat one at the entry, a flat one at tp1, and one spanning stop to far
\* target that opens at the stop.
Candles(s) ==
    LET e == s.entry_price
        f == FarTarget(s)
    IN  {HistoricalCandle(e, e, e, e),
         HistoricalCandle(s.tp1, s.tp1, s.tp1, s.tp1),
         HistoricalCandle(s.sl, Max(f, s.sl), Min(f, s.sl), e)}

\* How many candles one resolution replays.
MaxCandles == 3

CandleSeqs(s) == UNION {[1..n -> Candles(s)] : n \in 1..MaxCandles}

\* The replay's locals before the first candle.
ReplayStart ==
    [status |-> "PENDING", events |-> <<>>, exit_price |-> None,
     max_favorable |-> None, max_adverse |-> None, result |-> "None", stop |-> FALSE]

\* The body of resolve_signal's loop for candle i (0-based).
ReplayCandle(s, st, candle, i) ==
    LET is_long == (s.direction = "LONG") IN
    IF st.status = "PENDING"
    THEN LET entry_filled == IF is_long THEN candle.low <= s.entry_price
                                        ELSE candle.high >= s.entry_price
         IN  IF entry_filled
             THEN [st EXCEPT !.status = "ACTIVE",
                             !.events = Append(@, SignalEvent("ENTRY_HIT", Some(s.entry_price), "HISTORICAL", i)),
                             !.max_favorable = Some(s.entry_price),
                             !.max_adverse = Some(s.entry_price)]
             ELSE st
    ELSE IF st.status \in {"ACTIVE", "TP1_HIT", "TP2_HIT"}
    THEN LET mfe == IF is_long
                    THEN (IF st.max_favorable # None THEN Max(Val(st.max_favorable), candle.high) ELSE candle.high)
                    ELSE (IF st.max_favorable # None THEN Min(Val(st.max_favorable), candle.low) ELSE candle.low)
             mae == IF is_long
                    THEN (IF st.max_adverse # None THEN Min(Val(st.max_adverse), candle.low) ELSE candle.low)
                    ELSE (IF st.max_adverse # None THEN Max(Val(st.max_adverse), candle.high) ELSE candle.high)
             st1 == [st EXCEPT !.max_favorable = Some(mfe), !.max_adverse = Some(mae)]
             sl_hit0 == IF is_long THEN candle.low <= s.sl ELSE candle.high >= s.sl
             reached(level) == IF is_long THEN candle.high >= level ELSE candle.low <= level
             tp_hit0 == IF st.status = "ACTIVE"
                        THEN (IF reached(s.tp1) THEN Some(<<"TP1_HIT", s.tp1>>) ELSE None)
                        ELSE IF st.status = "TP1_HIT" /\ s.tp2 # None
                        THEN (IF reached(Val(s.tp2)) THEN Some(<<"TP2_HIT", Val(s.tp2)>>) ELSE None)
                        ELSE IF st.status = "TP2_HIT" /\ s.tp3 # None
                        THEN (IF reached(Val(s.tp3)) THEN Some(<<"TP3_HIT", Val(s.tp3)>>) ELSE None)
                        ELSE None
             both == sl_hit0 /\ tp_hit0 # None
             sl_distance == Abs(candle.open - s.sl)
             tp_distance == IF both THEN Abs(Val(tp_hit0)[2] - candle.open) ELSE 0
             sl_hit == IF both THEN ~(tp_distance < sl_distance) ELSE sl_hit0
             tp_hit == IF both /\ ~(tp_distance < sl_distance) THEN None ELSE tp_hit0
         IN  IF sl_hit
             THEN [st1 EXCEPT !.events = Append(@, SignalEvent("SL_HIT", Some(s.sl), "HISTORICAL", i)),
                              !.exit_price = Some(s.sl),
                              !.result = IF st.status \in {"TP1_HIT", "TP2_HIT"}
                                         THEN "PARTIAL" ELSE "LOSS",
                              !.stop = TRUE]
             ELSE IF tp_hit # None
             THEN LET event_name == Val(tp_hit)[1]
                      tp_price == Val(tp_hit)[2]
                      target == EVENT_TO_STATUS(event_name)
                      st2 == [st1 EXCEPT
                                !.events = Append(@, SignalEvent(event_name, Some(tp_price), "HISTORICAL", i)),
                                !.status = IF target # None THEN Val(target) ELSE @]
                  IN  IF \/ event_name = "TP3_HIT"
                         \/ (event_name = "TP2_HIT" /\ s.tp3 = None)
                         \/ (event_name = "TP1_HIT" /\ s.tp2 = None)
                      THEN [st2 EXCEPT !.exit_price = Some(tp_price), !.result = "WIN",
                                       !.stop = TRUE]
                      ELSE st2
             ELSE st1
    ELSE st

RECURSIVE Replay(_, _, _, _)

\* resolve_signal's loop: candles i+1.. of candles, until a break.
Replay(s, st, candles, i) ==
    IF i >= Len(candles) \/ st.stop
    THEN st
    ELSE Replay(s, ReplayCandle(s, st, candles[i + 1], i), candles, i + 1)

\* resolve_signal (risk_distance > 0): the outcome dict.
resolve_signal(s, candles) ==
    LET st == Replay(s, ReplayStart, candles, 0) IN
    IF ~st.stop /\ st.status = "PENDING"
    THEN [result |-> "NO_FILL", events |-> st.events, exit_price |-> None,
          r_value |-> None, max_favorable |-> None, max_adverse |-> None]
    ELSE LET exit_price == IF st.stop THEN st.exit_price
                           ELSE Some(candles[Len(candles)].close)
             result == IF st.stop THEN st.result ELSE "OPEN"
         IN  [result |-> result, events |-> st.events, exit_price |-> exit_price,
              r_value |-> IF exit_price # None /\ Val(exit_price) # 0
                          THEN Some(hit_r_value(s, Val(exit_price))) ELSE None,
              max_favorable |-> st.max_favorable, max_adverse |-> st.max_adverse]

\* _write_outcome's status_map.get(result).
status_map(result) ==
    CASE result = "WIN"     -> Some("CLOSED")
      [] result = "LOSS"    -> Some("SL_HIT")
      [] result = "PARTIAL" -> Some("CLOSED")
      [] OTHER              -> None

\* f"HISTORICAL_{outcome['result']}"
historical_close_reason(result) ==
    CASE result = "WIN"     -> "HISTORICAL_WIN"
      [] result = "LOSS"    -> "HISTORICAL_LOSS"
      [] result = "PARTIAL" -> "HISTORICAL_PARTIAL"

\* _write_outcome's update_data applied to the stored row.
write_outcome(r, outcome, t) ==
    LET r1 == [r EXCEPT !.exit_price = outcome.exit_price,
                        !.r_value = outcome.r_value,
                        !.max_favorable = outcome.max_favorable,
                        !.max_adverse = outcome.max_adverse]
        new_status == status_map(outcome.result)
    IN  IF new_status # None
        THEN [r1 EXCEPT !.status = Val(new_status),
                        !.close_reason = Some(historical_close_reason(outcome.result)),
                        !.closed_at = Some(t)]
        ELSE r1

\* resolve_batch's query: the row is taken when its stored status is
\* PENDING or ACTIVE; the candles are then awaited.
HistoricalQuery ==
    /\ hist = "idle"
    /\ row.status \in {"PENDING", "ACTIVE"}
    /\ hist' = "queried"
    /\ UNCHANGED <<sig, row, events, now, mon, examined, tracing, notified>>

\* resolve_batch for the row with the candles fetched: candle i carries the
\* time i, all in the past of the write; unless the entry never filled, the
\* outcome is written and its events inserted.
HistoricalResolve(candles) ==
    /\ hist = "queried"
    /\ LET outcome == resolve_signal(sig, candles)
           t == Max(now, Len(candles))
       IN  IF outcome.result # "NO_FILL"
           THEN /\ t < MaxNow
                /\ row' = write_outcome(row, outcome, t)
                /\ events' = events \o outcome.events
                /\ now' = t + 1
           ELSE UNCHANGED <<row, events, now>>
    /\ hist' = "idle"
    /\ UNCHANGED <<sig, mon, examined, tracing, notified>>

\* resolve_batch with no candles for the symbol, or the fetch failing.
HistoricalNoCandles ==
    /\ hist = "queried"
    /\ hist' = "idle"
    /\ UNCHANGED <<sig, row, events, now, mon, examined, tracing, notified>>

---------------------------------------------------------------------------
(* app/engine/outcome_resolver.py                                          *)

\* The last event of the given kinds, as the scan over events leaves it.
LastOf(evs, kinds) ==
    LET idx == {i \in 1..Len(evs) : evs[i].event_type \in kinds} IN
    IF idx = {} THEN None
    ELSE Some(evs[CHOOSE i \in idx : \A j \in idx : j <= i])

TpLevelOf(event_type) ==
    CASE event_type = "TP1_HIT" -> 1
      [] event_type = "TP2_HIT" -> 2
      [] event_type = "TP3_HIT" -> 3

\* tp_hits: (level, event) in event order.
TpHits(evs) ==
    SelectSeq(evs, LAMBDA ev : ev.event_type \in {"TP1_HIT", "TP2_HIT", "TP3_HIT"})

\* A price that is set and not zero ("x or y", "if x").
Truthy(p) == p # None /\ Val(p) # 0

\* OutcomeResolver.calculate_r_value
calculate_r_value(s, exit_price) ==
    IF exit_price = None \/ s.risk_distance = 0
    THEN None
    ELSE IF s.direction = "LONG"
    THEN Some(Round4(Val(exit_price) - s.entry_price, s.risk_distance))
    ELSE Some(Round4(s.entry_price - Val(exit_price), s.risk_distance))

\* OutcomeResolver.resolve_signal: result, exit_price, r_value, tp_hits.
outcome_resolve_signal(s, evs) ==
    LET sl_hit_event == LastOf(evs, {"SL_HIT"})
        close_event == LastOf(evs, {"MANUAL_CLOSE"})
        price_event == LastOf(evs, {"PRICE_UPDATE"})
        tp_hits == TpHits(evs)
        levels == [i \in 1..Len(tp_hits) |-> TpLevelOf(tp_hits[i].event_type)]
        tp_level(k) == IF k = 1 THEN Some(s.tp1) ELSE IF k = 2 THEN s.tp2 ELSE s.tp3
        result == IF sl_hit_event # None
                  THEN (IF Len(tp_hits) > 0 THEN "PARTIAL" ELSE "LOSS")
                  ELSE IF Len(tp_hits) > 0 THEN "WIN"
                  ELSE IF close_event # None THEN "CLOSED"
                  ELSE "OPEN"
        exit0 == IF sl_hit_event # None
                 THEN (IF Truthy(Val(sl_hit_event).price) THEN Val(sl_hit_event).price
                       ELSE Some(s.sl))
                 ELSE IF Len(tp_hits) > 0
                 THEN (LET last == tp_hits[Len(tp_hits)] IN
                       IF Truthy(last.price) THEN last.price
                       ELSE tp_level(TpLevelOf(last.event_type)))
                 ELSE IF close_event # None THEN Val(close_event).price
                 ELSE None
        exit_price == IF exit0 = None /\ price_event # None
                      THEN Val(price_event).price ELSE exit0
    IN  [result |-> result,
         exit_price |-> exit_price,
         r_value |-> IF Truthy(exit_price) THEN calculate_r_value(s, exit_price) ELSE None,
         tp_hits |-> IF sl_hit_event # None \/ Len(tp_hits) > 0 THEN levels ELSE <<>>]

---------------------------------------------------------------------------
(* The monitor's schedule: several stored signals, the columns the         *)
(* scheduler reads and writes (status, next_poll_at, symbol), and one      *)
(* monitor cycle after another. app/workers/price_monitor.py,              *)
(* app/price/smart_scheduler.py, app/price/price_manager.py.               *)

\* How many signals are stored.
NumSignals == 3

SchedIds == 1..NumSignals

\* _fetch_signals_due's limit(200), scaled to the number of stored signals.
FetchLimit == 2

\* The limit against the number of stored signals: below it, so that a
\* query can leave due rows behind, or not, so that a cycle takes them all.
FetchLimits == {FetchLimit, NumSignals}

\* The latest next_poll_at a stored signal starts with.
MaxPollAt == 1

\* The clock stops at MaxSchedNow.
MaxSchedNow == 2

Symbols == {"BTCUSDT", "ETHUSDT"}

\* The levels every scheduled signal carries.
SchedSignal == CanonicalSignal("LONG", 100, 95, 105, Some(110), Some(115))

\* Quotes for a symbol: beyond the stop (close to it), at the entry (far
\* from every level), and two short of tp1 (mid).
SchedQuotes == {94, 100, 103}

ProximityZone == {"CLOSE", "MID", "FAR"}

\* PriceManager.calculate_proximity: the zone, with min_distance and
\* total_range (ratio = min_distance / total_range).
calculate_proximity(current_price, entry_price, sl, tp_levels, direction) ==
    LET all_levels == {sl} \cup {tp_levels[i] : i \in 1..Len(tp_levels)}
        min_distance == CHOOSE d \in {Abs(current_price - l) : l \in all_levels} :
                            \A l \in all_levels : d <= Abs(current_price - l)
        total_range == Abs(Max(tp_levels[1], sl) - Min(tp_levels[1], sl))
        zone == IF total_range = 0 THEN "FAR"
                ELSE IF 10 * min_distance <= total_range THEN "CLOSE"
                ELSE IF 10 * min_distance <= 3 * total_range THEN "MID"
                ELSE "FAR"
    IN  [zone |-> zone, min_distance |-> min_distance, total_range |-> total_range]

MIN_POLL_INTERVAL == 1

MAX_POLL_INTERVAL == 300

POLL_INTERVALS_Reversed(zone) ==
    CASE zone = "CLOSE" -> 60
      [] zone = "MID" -> 15
      [] zone = "FAR" -> 5

POLL_INTERVALS(zone) ==
    CASE zone = "CLOSE" -> 5
      [] zone = "MID"   -> 15
      [] zone = "FAR"   -> 60
      [] OTHER          -> MAX_POLL_INTERVAL

\* A Python value that is a number, and the coroutine object a call of an
\* async def returns when it is not awaited.
Number(v) == [kind |-> "int", value |-> v]

Coroutine(v) == [kind |-> "coroutine", value |-> v]

\* SmartScheduler.calculate_next_poll is an async def and _check_signal
\* calls it without await: the call returns the coroutine.
calculate_next_poll(proximity_zone) ==
    Coroutine(Max(MIN_POLL_INTERVAL, Min(POLL_INTERVALS(proximity_zone), MAX_POLL_INTERVAL)))

\* timedelta(seconds=x): a number of seconds, or TypeError for any other
\* object.
timedelta(seconds) ==
    IF seconds.kind = "int"
    THEN [raised |-> "None", seconds |-> seconds.value]
    ELSE [raised |-> "TypeError", seconds |-> 0]

SchedRow(status, next_poll_at, symbol) ==
    [status |-> status, next_poll_at |-> next_poll_at, symbol |-> symbol]

\* Rows as _store_signal leaves them: PENDING or INVALID, with a
\* next_poll_at.
SchedInit ==
    /\ sc_rows \in [SchedIds -> {SchedRow(st, t, sym) :
                        st \in {"PENDING", "INVALID"}, t \in 0..MaxPollAt, sym \in Symbols}]
    /\ sc_now = 0
    /\ sc_pc = "idle"
    /\ sc_taken = <<>>
    /\ sc_examined = <<>>
    /\ sc_limit \in FetchLimits

SchedIdle ==
    /\ sc_rows = <<>>
    /\ sc_now = 0
    /\ sc_pc = "idle"
    /\ sc_taken = <<>>
    /\ sc_examined = <<>>
    /\ sc_limit = FetchLimit

\* The rows the query's filters keep: status in the list, next_poll_at <= now.
DueIds(rows, t) ==
    {i \in SchedIds : rows[i].status \in MonitoredStatuses /\ rows[i].next_poll_at <= t}

\* The orders in which a database may return ids: every arrangement.
Arrangements(ids) ==
    {s \in [1..Cardinality(ids) -> ids] : \A i, j \in 1..Cardinality(ids) : i # j => s[i] # s[j]}

Prefix(s, n) == SubSeq(s, 1, Min(n, Len(s)))

\* A query that does not order its rows.
fetch_signals_due_Unordered(rows, t, limit) ==
    {Prefix(s, limit) : s \in Arrangements(DueIds(rows, t))}

\* _fetch_signals_due: the filtered rows ordered by next_poll_at (rows with
\* equal next_poll_at in any order), the first limit of them.
fetch_signals_due(rows, t, limit) ==
    {Prefix(s, limit) :
        s \in {a \in Arrangements(DueIds(rows, t)) :
                \A i, j \in 1..Len(a) :
                    i < j => rows[a[i]].next_poll_at <= rows[a[j]].next_poll_at}}

\* _run_single_cycle up to its await: the due rows are fetched; with none
\* the cycle returns, otherwise it waits for the prices.
SchedFetch ==
    /\ sc_pc = "idle"
    /\ \E taken \in fetch_signals_due(sc_rows, sc_now, sc_limit) :
        /\ sc_taken' = [k \in 1..Len(taken) |-> [id |-> taken[k], row |-> sc_rows[taken[k]]]]
        /\ sc_pc' = IF taken = <<>> THEN "idle" ELSE "fetched"
    /\ sc_examined' = <<>>
    /\ UNCHANGED <<sc_rows, sc_now, sc_limit>>

\* SmartScheduler.group_by_symbol followed by the two loops of
\* _run_single_cycle: symbols in order of first appearance, each symbol's
\* signals in fetched order.
group_by_symbol(taken) ==
    LET first(sym) == CHOOSE k \in 1..Len(taken) :
                        /\ taken[k].row.symbol = sym
                        /\ \A j \in 1..(k - 1) : taken[j].row.symbol # sym
        before(a, b) ==
            \/ first(taken[a].row.symbol) < first(taken[b].row.symbol)
            \/ (taken[a].row.symbol = taken[b].row.symbol /\ a < b)
        pos(k) == 1 + Cardinality({j \in 1..Len(taken) : before(j, k)})
    IN  [p \in 1..Len(taken) |-> taken[CHOOSE k \in 1..Len(taken) : pos(k) = p]]

\* _check_signal for one fetched row at price cp, on the scheduler's
\* columns: the hit (if any) moves the status, then next_poll_at is
\* computed; a raise leaves next_poll_at unwritten.
sched_check_signal(rows, item, cp, t) ==
    LET s == SchedSignal
        event_type == detect_event(item.row.status, s.direction, cp, s.entry_price,
                                   s.sl, s.tp1, s.tp2, s.tp3)
        tr == process_event(item.row.status, event_type)
        rows1 == IF event_type # "None" /\ tr.did_transition
                 THEN [rows EXCEPT ![item.id].status = tr.new_status]
                 ELSE rows
        tp_levels == <<s.tp1>> \o s.tp2 \o s.tp3
        zone == calculate_proximity(cp, s.entry_price, s.sl, tp_levels, s.direction).zone
        delta == timedelta(calculate_next_poll(zone))
    IN  IF delta.raised # "None"
        THEN [rows |-> rows1, raised |-> TRUE]
        ELSE [rows |-> [rows1 EXCEPT ![item.id].next_poll_at = t + delta.seconds],
              raised |-> FALSE]

\* The signals whose writes the database refuses during a cycle: none, or
\* one of them.
FailingWrites == {{}} \cup {{i} : i \in SchedIds}

RECURSIVE check_loop(_, _, _, _, _, _, _)

\* The loops of _run_single_cycle from position k of the grouped rows: a
\* symbol without a quote is skipped, a raise ends the cycle (caught by
\* _run_loop). The first write of _check_signal, of last_price, raises for
\* a signal whose writes fail.
check_loop(rows, order, k, quotes, failing, seen, t) ==
    IF k > Len(order)
    THEN [rows |-> rows, examined |-> seen]
    ELSE LET item == order[k] IN
         IF quotes[item.row.symbol] = None
         THEN check_loop(rows, order, k + 1, quotes, failing, seen, t)
         ELSE LET cp == Val(quotes[item.row.symbol])
                  out == IF item.id \in failing
                         THEN [rows |-> rows, raised |-> TRUE]
                         ELSE sched_check_signal(rows, item, cp, t)
                  seen1 == Append(seen, item.id)
              IN  IF out.raised
                  THEN [rows |-> out.rows, examined |-> seen1]
                  ELSE check_loop(out.rows, order, k + 1, quotes, failing, seen1, t)

\* _run_single_cycle from the arrival of the prices to its end.
SchedCheck(quotes, failing) ==
    /\ sc_pc = "fetched"
    /\ LET out == check_loop(sc_rows, group_by_symbol(sc_taken), 1, quotes, failing,
                             <<>>, sc_now) IN
        /\ sc_rows' = out.rows
        /\ sc_examined' = out.examined
    /\ sc_pc' = "idle"
    /\ sc_taken' = <<>>
    /\ UNCHANGED <<sc_now, sc_limit>>

\* Time passes (the loop's sleep, the wait for prices).
SchedTick ==
    /\ sc_now < MaxSchedNow
    /\ sc_now' = sc_now + 1
    /\ UNCHANGED <<sc_rows, sc_pc, sc_taken, sc_examined, sc_limit>>

\* What get_prices_batch may return: per symbol a quote or none.
QuoteMaps == [Symbols -> {None} \cup {Some(p) : p \in SchedQuotes}]

\* get_prices_batch returning a quote for every symbol.
FullQuoteMaps == [Symbols -> {Some(p) : p \in SchedQuotes}]

---------------------------------------------------------------------------
(* Outbound delivery: app/notifications/notification_engine.py and         *)
(* app/notifications/webhook_sender.py. The monitor routes every event     *)
(* through the one NotificationEngine of notification_handler, as a task   *)
(* of its own, so events are routed concurrently and share one             *)
(* WebhookSenderPool. A task runs without interruption between two awaits  *)
(* that suspend: the semaphore when it is exhausted, the HTTP request, the *)
(* sleep before a retry. The supabase calls do not suspend.                *)

NumSubs == 2
SubIds == 1..NumSubs

NumEvents == 2
EventIds == 1..NumEvents

MaxNotifNow == 1

\* max_concurrent of the pool (default 10).
MaxConcurrent == 2

Providers == {"p1", "p2"}

\* The events are those of signals of one provider, in the order the
\* monitor emits them: an ENTRY_HIT, then an SL_HIT, and so on.
EventKind(e) == IF e % 2 = 1 THEN "ENTRY_HIT" ELSE "SL_HIT"

\* providers.webhook_secret: p2 has none.
webhook_secret(provider_id) == IF provider_id = "p1" THEN "whsec" ELSE ""

RETRY_DELAYS == <<1, 5, 30>>

MAX_CONSECUTIVE_FAILURES == 10

\* [0] + self.RETRY_DELAYS
AttemptDelays == <<0>> \o RETRY_DELAYS

\* What an HTTP request comes to: a response with a status code, or no
\* response (httpx.TimeoutException, httpx.RequestError).
StatusCodes == {200, 299, 300, 500}

Responses == {Some(c) : c \in StatusCodes} \cup {None}

\* The same without the codes next to the bound of success.
PlainResponses == {Some(200), Some(500), None}

StoredFailures == {0, 9, 10}

\* A row of outbound_webhooks.
Webhook(provider_id, is_active, event_types, consecutive_failures) ==
    [provider_id |-> provider_id, is_active |-> is_active,
     event_types |-> event_types,
     consecutive_failures |-> consecutive_failures,
     last_delivery_at |-> None]

Deliveries == EventIds \X SubIds

\* A delivery the router has not created.
NoDelivery ==
    [pc |-> "none", attempt |-> 0, config |-> 0, slept |-> 0, sent |-> <<>>]

\* _send_with_semaphore(config, ...) as gather schedules it: config is the
\* row as the router read it; sent are the offsets (seconds slept since
\* the delivery started) at which it made its HTTP requests.
NewDelivery(webhook) ==
    [pc |-> "queued", attempt |-> 0, config |-> webhook.consecutive_failures,
     slept |-> 0, sent |-> <<>>]

NotifInit ==
    /\ nf_subs \in [SubIds -> {Webhook(p, a, t, f) :
                        p \in Providers, a \in BOOLEAN,
                        t \in {{"ENTRY_HIT"}, {"ENTRY_HIT", "SL_HIT"}},
                        f \in StoredFailures}]
    /\ nf_subs[1] \in {Webhook("p1", TRUE, {"ENTRY_HIT", "SL_HIT"}, f) :
                            f \in StoredFailures}
    /\ \A s \in SubIds \ {1} : nf_subs[s].event_types = {"ENTRY_HIT"}
    /\ \E p \in Providers :
            nf_events = [e \in EventIds |->
                [provider_id |-> p, event_type |-> EventKind(e), routed |-> FALSE]]
    /\ nf_dels = [d \in Deliveries |-> NoDelivery]
    /\ nf_log = [d \in Deliveries |-> <<>>]
    /\ nf_sem = MaxConcurrent
    /\ nf_now = 0

NotifIdle ==
    /\ nf_subs = <<>>
    /\ nf_events = <<>>
    /\ nf_dels = <<>>
    /\ nf_log = <<>>
    /\ nf_sem = 0
    /\ nf_now = 0

\* A router that leaves the circuit breaker to the sender.
find_matching_webhooks_NoBreaker(subs, provider_id, event_type) ==
    {s \in DOMAIN subs :
        /\ subs[s].provider_id = provider_id
        /\ subs[s].is_active
        /\ event_type \in subs[s].event_types}

\* NotificationEngine._find_matching_webhooks
find_matching_webhooks(subs, provider_id, event_type) ==
    {s \in DOMAIN subs :
        /\ subs[s].provider_id = provider_id
        /\ subs[s].is_active
        /\ event_type \in subs[s].event_types
        /\ subs[s].consecutive_failures < 10}

\* NotificationEngine.on_signal_event for the event e: find the webhooks,
\* fetch the secret, send_batch. The tasks of the batch are created; each
\* starts at its acquire of the semaphore. The tasks that route the events
\* are created in the order of the events and each runs up to its gather
\* without suspending, so events are routed in order.
on_signal_event(e) ==
    /\ ~nf_events[e].routed
    /\ \A f \in EventIds : f < e => nf_events[f].routed
    /\ LET provider_id == nf_events[e].provider_id
           webhooks == find_matching_webhooks(nf_subs, provider_id,
                                              nf_events[e].event_type)
           secret == webhook_secret(provider_id)
           batch == IF secret = "" THEN {} ELSE webhooks
       IN  /\ nf_events' = [nf_events EXCEPT ![e].routed = TRUE]
           /\ nf_dels' = [d \in Deliveries |->
                    IF d[1] = e /\ d[2] \in batch
                    THEN NewDelivery(nf_subs[d[2]])
                    ELSE nf_dels[d]]
    /\ UNCHANGED <<nf_subs, nf_log, nf_sem, nf_now>>

\* An acquire that does not wait.
acquire_Unbounded(value) == TRUE

\* asyncio.Semaphore.acquire returns at once when the value is positive.
acquire(value) == value > 0

\* _send_with_semaphore up to the first request of send: the acquire, the
\* circuit breaker on the config handed over, the request.
send_with_semaphore(d) ==
    /\ nf_dels[d].pc = "queued"
    /\ acquire(nf_sem)
    /\ IF nf_dels[d].config >= MAX_CONSECUTIVE_FAILURES
       THEN /\ nf_dels' = [nf_dels EXCEPT ![d].pc = "broken"]
            /\ UNCHANGED nf_sem
       ELSE /\ nf_dels' = [nf_dels EXCEPT ![d].pc = "request",
                                          ![d].sent = <<0>>]
            /\ nf_sem' = nf_sem - 1
    /\ UNCHANGED <<nf_subs, nf_events, nf_log, nf_now>>

\* A sender that takes any response for a success.
send_request_success_AnyResponse(response) == response # None

\* _send_request: success is a response with status_code < 300.
send_request_success(response) ==
    response # None /\ Val(response) < 300

\* new_failures = webhook_config.get("consecutive_failures", 0) + 1
new_failures(config) == config + 1

\* The request of delivery d comes to an end: _send_request logs a
\* response, and send goes on: success, the next sleep, or the failure
\* after the last attempt.
send_response(d, response) ==
    LET del == nf_dels[d]
        s == d[2]
    IN  /\ del.pc = "request"
        /\ nf_log' = [nf_log EXCEPT ![d] =
                IF response = None THEN @ ELSE Append(@, Val(response))]
        /\ IF send_request_success(response)
           THEN /\ nf_subs' = [nf_subs EXCEPT
                        ![s].consecutive_failures = 0,
                        ![s].last_delivery_at = Some(nf_now)]
                /\ nf_dels' = [nf_dels EXCEPT ![d].pc = "ok"]
                /\ nf_sem' = nf_sem + 1
           ELSE IF del.attempt + 1 < Len(AttemptDelays)
           THEN /\ nf_dels' = [nf_dels EXCEPT ![d].pc = "sleep",
                                              ![d].attempt = @ + 1]
                /\ UNCHANGED <<nf_subs, nf_sem>>
           ELSE /\ nf_subs' = [nf_subs EXCEPT ![s].consecutive_failures =
                        new_failures(del.config)]
                /\ nf_dels' = [nf_dels EXCEPT ![d].pc = "failed"]
                /\ nf_sem' = nf_sem + 1
        /\ UNCHANGED <<nf_events, nf_now>>

\* asyncio.sleep(delay) is over: the next request is made.
send_retry(d) ==
    LET del == nf_dels[d]
        at == del.slept + AttemptDelays[del.attempt + 1]
    IN  /\ del.pc = "sleep"
        /\ nf_dels' = [nf_dels EXCEPT ![d].pc = "request",
                                      ![d].slept = at,
                                      ![d].sent = Append(@, at)]
        /\ UNCHANGED <<nf_subs, nf_events, nf_log, nf_sem, nf_now>>

\* A cancellation taken for one more failure, the last.
send_cancel_Counted(d) ==
    /\ nf_dels[d].pc \in {"request", "sleep"}
    /\ nf_subs' = [nf_subs EXCEPT ![d[2]].consecutive_failures =
                        new_failures(nf_dels[d].config)]
    /\ nf_dels' = [nf_dels EXCEPT ![d].pc = "failed"]
    /\ nf_sem' = nf_sem + 1
    /\ UNCHANGED <<nf_events, nf_log, nf_now>>

\* The task of delivery d is cancelled where it is suspended: at the
\* semaphore, in the request, or in the sleep. asyncio.CancelledError is
\* no Exception, so no handler of send or _send_request takes it; leaving
\* "async with self.semaphore" gives the slot back.
send_cancel(d) ==
    /\ nf_dels[d].pc \in {"queued", "request", "sleep"}
    /\ nf_dels' = [nf_dels EXCEPT ![d].pc = "cancelled"]
    /\ nf_sem' = IF nf_dels[d].pc = "queued" THEN nf_sem ELSE nf_sem + 1
    /\ UNCHANGED <<nf_subs, nf_events, nf_log, nf_now>>

NotifTick ==
    /\ nf_now < MaxNotifNow
    /\ nf_now' = nf_now + 1
    /\ UNCHANGED <<nf_subs, nf_events, nf_dels, nf_log, nf_sem>>

InFlight(dels) == {d \in DOMAIN dels : dels[d].pc \in {"request", "sleep"}}

---------------------------------------------------------------------------
(* The idempotency key: NotificationEngine._build_payload and              *)
(* WebhookSender._send_request. One payload is built per routed event and  *)
(* every request of every delivery of the event is made from it.           *)

\* uuid.uuid4().hex: random hexadecimal digits (32 of them).
HexDigits == {"0", "f"}

UuidLen == 3

Uuids == [1..UuidLen -> HexDigits]

\* The digits kept of the uuid (12 of them): hex[:12].
EventIdLen == 2

\* event_id = f"evt_{uuid.uuid4().hex[:12]}"
event_id_of(hex) == <<"evt_">> \o SubSeq(hex, 1, EventIdLen)

\* json.dumps of the payload: the event_id and the rest of the payload.
payload_json(event_id, e) == event_id \o <<EventKind(e)>>

\* WebhookSender._generate_signature
generate_signature(body, secret) == <<"hmac-sha256", secret>> \o body

\* dict.update
DictUpdate(a, b) ==
    [k \in DOMAIN a \cup DOMAIN b |-> IF k \in DOMAIN b THEN b[k] ELSE a[k]]

\* The custom headers a row of outbound_webhooks may hold.
CustomHeaders ==
    {<<>>,
     "X-Source" :> <<"bridge">>,
     "X-Idempotency-Key" :> <<"static">>}

\* Custom headers applied under the three headers of the sender.
request_headers_CustomFirst(event_id, body, secret, headers) ==
    DictUpdate(headers,
               ("Content-Type" :> <<"application/json">>)
                   @@ ("X-Idempotency-Key" :> event_id)
                   @@ ("X-Signature" :> generate_signature(body, secret)))

\* _send_request: request_headers, then request_headers.update(headers)
\* when the subscription has custom headers.
request_headers(event_id, body, secret, headers) ==
    LET base == ("Content-Type" :> <<"application/json">>)
                    @@ ("X-Idempotency-Key" :> event_id)
                    @@ ("X-Signature" :> generate_signature(body, secret))
    IN  IF headers # <<>> THEN DictUpdate(base, headers) ELSE base

KeyInit ==
    /\ ik_headers \in [SubIds -> CustomHeaders]
    /\ ik_payload = [e \in EventIds |-> None]
    /\ ik_requests = {}

KeyIdle ==
    /\ ik_headers = <<>>
    /\ ik_payload = <<>>
    /\ ik_requests = {}

\* _build_payload for the event e, the uuid drawn being hex.
build_payload(e, hex) ==
    /\ ik_payload[e] = None
    /\ ik_payload' = [ik_payload EXCEPT ![e] = Some(event_id_of(hex))]
    /\ UNCHANGED <<ik_headers, ik_requests>>

\* _send_request of a delivery of the event e to the subscription s, at
\* any of its attempts: the request as posted.
send_request(e, s) ==
    /\ ik_payload[e] # None
    /\ LET event_id == Val(ik_payload[e])
           body == payload_json(event_id, e)
           hdrs == request_headers(event_id, body, "whsec", ik_headers[s])
       IN  ik_requests' = ik_requests \cup
                {[event |-> e, sub |-> s, content |-> body,
                  key |-> hdrs["X-Idempotency-Key"],
                  event_id |-> event_id]}
    /\ UNCHANGED <<ik_headers, ik_payload>>

---------------------------------------------------------------------------
(* The structured ingress: POST /webhook/tradingview *)

MaxStored == 3

\* A request body: text that is not JSON, a JSON array, or a JSON object
\* with some of the fields symbol, direction, entry, sl, tp1.
RequestBody(json, symbol, direction, entry, sl, tp1) ==
    [json |-> json, symbol |-> symbol, direction |-> direction,
     entry |-> entry, sl |-> sl, tp1 |-> tp1]

RequestBodies ==
    {RequestBody("invalid", None, None, None, None, None),
     RequestBody("array", None, None, None, None, None)} \cup
    {RequestBody("object", symbol, direction, entry, sl, tp1) :
        symbol \in {None, Some("NQ")}, direction \in {None, Some("LONG")},
        entry \in {None, Some(100)}, sl \in {None, Some(95), Some(110)},
        tp1 \in {None, Some(105)}}

\* The X-API-Key header: absent, or the key of provider "p1".
ApiKeys == {None, Some("p1")}

\* TradingViewWebhook(**body): symbol, direction, sl and tp1 are required
\* fields; entry is Optional with default None.
TradingViewWebhook(body) ==
    /\ body.symbol # None
    /\ body.direction # None
    /\ body.sl # None
    /\ body.tp1 # None

\* SignalNormalizer.normalize_tradingview: entry_price is float(entry), or
\* float(0) when the webhook has no entry.
normalize_tradingview(body) ==
    CanonicalSignal(Val(body.direction),
                    IF body.entry # None THEN Val(body.entry) ELSE 0,
                    Val(body.sl), Val(body.tp1), None, None)

\* _ensure_default_provider: the first active provider, or a new row
\* "AutoBridge". Returns <<provider, the table>>.
ensure_default_provider(providers) ==
    IF providers # {}
    THEN <<CHOOSE p \in providers : TRUE, providers>>
    ELSE <<"AutoBridge", providers \cup {"AutoBridge"}>>

\* _store_signal: one row of canonical_signals.
store_signal(signals, signal, provider_id, status) ==
    Append(signals, [provider_id |-> provider_id, status |-> status,
                     entry_price |-> signal.entry_price, sl |-> signal.sl])

IngestInit ==
    /\ ig_providers \in {{}, {"p1"}}
    /\ ig_signals = <<>>
    /\ ig_events = <<>>
    /\ ig_response = None

IngestIdle ==
    /\ ig_providers = {}
    /\ ig_signals = <<>>
    /\ ig_events = <<>>
    /\ ig_response = None

\* ingest_tradingview: parse the body, resolve the provider, normalize,
\* validate, store. A body that is not a JSON object has no get().
ingest_tradingview(body, x_api_key) ==
    /\ Len(ig_signals) < MaxStored
    /\ IF body.json = "invalid"
       THEN /\ ig_response' = Some(400)
            /\ UNCHANGED <<ig_providers, ig_signals, ig_events>>
       ELSE IF body.json = "array"
       THEN /\ ig_response' = Some(500)
            /\ UNCHANGED <<ig_providers, ig_signals, ig_events>>
       ELSE LET by_key == x_api_key # None /\ Val(x_api_key) \in ig_providers
                resolved == IF by_key THEN <<Val(x_api_key), ig_providers>>
                                      ELSE ensure_default_provider(ig_providers)
                provider_id == resolved[1]
            IN  /\ ig_providers' = resolved[2]
                /\ IF ~TradingViewWebhook(body)
                   THEN /\ ig_response' = Some(422)
                        /\ UNCHANGED <<ig_signals, ig_events>>
                   ELSE LET signal == normalize_tradingview(body)
                        IN  IF ~check_price_sanity(signal)
                            THEN /\ ig_signals' = store_signal(ig_signals, signal, provider_id, "INVALID")
                                 /\ ig_response' = Some(422)
                                 /\ UNCHANGED ig_events
                            ELSE /\ ig_signals' = store_signal(ig_signals, signal, provider_id, "PENDING")
                                 /\ ig_events' = Append(ig_events,
                                        [signal |-> Len(ig_signals) + 1,
                                         event_type |-> "ENTRY_REGISTERED",
                                         price |-> signal.entry_price])
                                 /\ ig_response' = Some(200)

---------------------------------------------------------------------------
(* The validator: app/engine/validator.py *)

ApIdle ==
    /\ ap_in = None
    /\ ap_out = None

\* ValidationConfig.max_risk_pct, in percent of the entry price.
max_risk_pct(asset_class) ==
    CASE asset_class = "FUTURES" -> 3
      [] asset_class = "FOREX" -> 2
      [] asset_class = "CRYPTO" -> 15
      [] asset_class = "STOCKS" -> 5
      [] OTHER -> 10

\* ValidationConfig.max_latency_seconds.
max_latency_seconds == 300

\* CanonicalSignal.calculate_risk_metrics: rr_ratio in units of 1/10000,
\* None when risk_distance is 0.
rr_ratio(s) ==
    IF s.risk_distance > 0
    THEN Some(Round4(Abs(s.tp1 - s.entry_price), s.risk_distance))
    ELSE None

\* _check_rr_ratio: TRUE when it appends no error (min_rr_ratio = 0.5).
check_rr_ratio(s) ==
    /\ rr_ratio(s) # None
    /\ ~(Val(rr_ratio(s)) < 5000)

\* _check_risk_distance: TRUE when it appends no error.
check_risk_distance(s, asset_class) ==
    /\ s.entry_price # 0
    /\ ~(100 * s.risk_distance > max_risk_pct(asset_class) * s.entry_price)

\* _check_latency: TRUE when it appends no error.
check_latency(age_seconds) == ~(age_seconds > max_latency_seconds)

\* ValidationEngine.validate: is_valid. _check_price_precision appends
\* warnings only.
validate(s, asset_class, age_seconds) ==
    /\ check_price_sanity(s)
    /\ check_rr_ratio(s)
    /\ check_risk_distance(s, asset_class)
    /\ check_latency(age_seconds)

\* Signals around an entry of 100, with and without tp2 and tp3, of two
\* asset classes, fresh and stale.
ValidateInputs ==
    {[signal |-> CanonicalSignal(d, 100, sl, tp1, tp2, tp3), asset_class |-> ac,
      age_seconds |-> age] :
        d \in {"LONG", "SHORT"}, sl \in {98, 100, 102}, tp1 \in {97, 104},
        tp2 \in {None, Some(95), Some(106)},
        tp3 \in {None, Some(93), Some(105), Some(108)},
        ac \in {"FOREX", "OTHER"}, age \in {0, 301}}

ValidateInit ==
    /\ ap_in \in {Some(i) : i \in ValidateInputs}
    /\ ap_out = None

\* ingest_tradingview's call of validator.validate(signal).
Validate ==
    /\ ap_out = None
    /\ ap_out' = Some(validate(Val(ap_in).signal, Val(ap_in).asset_class,
                               Val(ap_in).age_seconds))
    /\ UNCHANGED ap_in

---------------------------------------------------------------------------
(* The rate limiter of an adapter: app/price/rest_poller.py *)

\* The limit of the limiter, calls per window.
MaxPerMinute == 2

\* The length of the window (one minute), in ticks of the clock.
Minute == 3

\* The 0.1 s added to the wait, in ticks.
WaitMargin == 1

MaxRateNow == 5

MaxProceeded == 5

RateInit ==
    /\ rl_now = 0
    /\ rl_requests = <<>>
    /\ rl_sleepers = <<>>
    /\ rl_proceeded = <<>>

RateIdle == RateInit

\* [r for r in self.requests if r > cutoff]
recent_requests(requests, cutoff) ==
    SelectSeq(requests, LAMBDA r : r > cutoff)

Remove(seq, k) == SubSeq(seq, 1, k - 1) \o SubSeq(seq, k + 1, Len(seq))

\* wait_if_needed up to its await or its return: with the window full the
\* caller goes to sleep until the oldest request leaves the window,
\* otherwise its time is recorded and it returns.
wait_if_needed ==
    /\ Len(rl_proceeded) + Len(rl_sleepers) < MaxProceeded
    /\ LET cutoff == rl_now - Minute
           requests == recent_requests(rl_requests, cutoff)
       IN  IF Len(requests) >= MaxPerMinute
           THEN /\ rl_requests' = requests
                /\ rl_sleepers' = Append(rl_sleepers,
                                         rl_now + (requests[1] - cutoff) + WaitMargin)
                /\ UNCHANGED rl_proceeded
           ELSE /\ rl_requests' = Append(requests, rl_now)
                /\ rl_proceeded' = Append(rl_proceeded, rl_now)
                /\ UNCHANGED rl_sleepers
    /\ UNCHANGED rl_now

\* wait_if_needed after its sleep: the list is emptied and the call returns.
wait_wake(k) ==
    /\ k \in 1..Len(rl_sleepers)
    /\ rl_sleepers[k] <= rl_now
    /\ rl_requests' = <<>>
    /\ rl_sleepers' = Remove(rl_sleepers, k)
    /\ rl_proceeded' = Append(rl_proceeded, rl_now)
    /\ UNCHANGED rl_now

\* Time passes; a sleeper wakes when its sleep is over.
RateTick ==
    /\ rl_now < MaxRateNow
    /\ \A k \in 1..Len(rl_sleepers) : rl_sleepers[k] > rl_now
    /\ rl_now' = rl_now + 1
    /\ UNCHANGED <<rl_requests, rl_sleepers, rl_proceeded>>

---------------------------------------------------------------------------
(* The streaming adapter: app/price/binance_ws.py *)

RECONNECT_DELAYS == <<1, 2, 4, 8, 16, 32, 60>>

MaxFailures == 9

\* How one connection ends. "ended": it streamed and the server closed it
\* normally. "refused": it could not be opened. "dropped": it was lost
\* (ConnectionClosed). "dropped_raises": it was lost and the handler's read
\* of e.rcvd_then_sent raises, with a websockets release that lacks it.
ConnectionOutcomes == {"ended", "refused", "dropped", "dropped_raises"}

\* _connect_and_stream: every exception of the connection is caught and
\* logged; only one raised inside a handler leaves the function.
connect_and_stream(outcome) ==
    IF outcome = "dropped_raises" THEN "raised" ELSE "returned"

StreamInit ==
    /\ ws_pc = "connect"
    /\ ws_attempt = 0
    /\ ws_failures = 0
    /\ ws_slept = None

StreamIdle == StreamInit

\* One turn of _stream_worker's loop up to its next await: the connection
\* is made and ends; on a normal return reconnect_attempt is reset and the
\* loop connects again, on an exception the delay is chosen and slept.
stream_worker(outcome) ==
    /\ ws_pc = "connect"
    /\ ws_failures < MaxFailures
    /\ ws_failures' = IF outcome = "ended" THEN 0 ELSE ws_failures + 1
    /\ IF connect_and_stream(outcome) = "returned"
       THEN /\ ws_attempt' = 0
            /\ ws_slept' = None
            /\ ws_pc' = "connect"
       ELSE /\ ws_slept' = Some(RECONNECT_DELAYS[Min(ws_attempt, Len(RECONNECT_DELAYS) - 1) + 1])
            /\ ws_attempt' = ws_attempt + 1
            /\ ws_pc' = "sleep"

\* asyncio.sleep(delay) returns.
stream_sleep_done ==
    /\ ws_pc = "sleep"
    /\ ws_pc' = "connect"
    /\ UNCHANGED <<ws_attempt, ws_failures, ws_slept>>

\* The task is cancelled in its sleep (unsubscribe, close_all).
stream_cancel ==
    /\ ws_pc = "sleep"
    /\ ws_pc' = "stopped"
    /\ UNCHANGED <<ws_attempt, ws_failures, ws_slept>>

---------------------------------------------------------------------------
(* The monitor's task and its shutdown: PriceMonitorWorker.start, stop and *)
(* _run_loop. The task can be cancelled where it is suspended: in the      *)
(* sleep between cycles and in the await of the prices. The calls of the   *)
(* database client are synchronous.                                        *)

MaxHits == 2

TaskInit ==
    /\ mt_pc = "sleep"
    /\ mt_current = None
    /\ mt_events = [i \in SchedIds |-> 0]
    /\ mt_updates = [i \in SchedIds |-> 0]

TaskIdle == TaskInit

\* _run_loop: the sleep returns, _run_single_cycle fetches the due signals
\* and awaits get_prices_batch.
task_fetch ==
    /\ mt_pc = "sleep"
    /\ mt_pc' = "prices"
    /\ UNCHANGED <<mt_current, mt_events, mt_updates>>

\* The prices arrive and _check_signal runs for the first priced signal, up
\* to _process_hit's insert of the event when a hit is detected; without a
\* hit the examination ends and with it the cycle (see SchedCheck).
task_check(i, hit) ==
    /\ mt_pc = "prices"
    /\ IF hit /\ mt_events[i] < MaxHits
       THEN /\ mt_events' = [mt_events EXCEPT ![i] = @ + 1]
            /\ mt_current' = Some(i)
            /\ mt_pc' = "event_written"
       ELSE /\ mt_pc' = "sleep"
            /\ UNCHANGED <<mt_current, mt_events>>
    /\ UNCHANGED mt_updates

\* _process_hit from the insert of the event to the update of the row, then
\* the rest of the examination and the cycle's end.
task_update ==
    /\ mt_pc = "event_written"
    /\ mt_updates' = [mt_updates EXCEPT ![Val(mt_current)] = @ + 1]
    /\ mt_current' = None
    /\ mt_pc' = "sleep"
    /\ UNCHANGED mt_events

task_stop_AnyPoint ==
    /\ mt_pc \in {"sleep", "prices", "event_written"}
    /\ mt_pc' = "cancelled"
    /\ UNCHANGED <<mt_current, mt_events, mt_updates>>

\* stop: is_running = False and the task is cancelled; CancelledError is
\* raised in the task at the await where it is suspended.
task_stop ==
    /\ mt_pc \in {"sleep", "prices"}
    /\ mt_pc' = "cancelled"
    /\ UNCHANGED <<mt_current, mt_events, mt_updates>>

---------------------------------------------------------------------------
(* The poll interval as a function of the price: PriceManager's            *)
(* calculate_proximity and SmartScheduler's calculate_next_poll            *)

\* Prices from below the stop to above tp3.
ProximityPrices == 90..120

\* Signals with one, two and three targets, LONG and SHORT.
ProximitySignals ==
    {CanonicalSignal("LONG", 100, 95, 105, None, None),
     CanonicalSignal("LONG", 100, 95, 105, Some(110), None),
     CanonicalSignal("LONG", 100, 95, 105, Some(110), Some(115)),
     CanonicalSignal("SHORT", 110, 115, 105, Some(100), Some(95))}

ProximityInputs ==
    {[signal |-> sg, current_price |-> cp] : sg \in ProximitySignals, cp \in ProximityPrices}

\* _check_signal's tp_levels: tp1, then tp2 and tp3 when set.
tp_levels_of(sg) == <<sg.tp1>> \o sg.tp2 \o sg.tp3

\* The zone of _check_signal's calculate_proximity call and the number the
\* coroutine of calculate_next_poll returns when it is awaited.
poll_interval(input) ==
    LET sg == input.signal
        proximity == calculate_proximity(input.current_price, sg.entry_price, sg.sl,
                                         tp_levels_of(sg), sg.direction)
    IN  [zone |-> proximity.zone,
         interval |-> calculate_next_poll(proximity.zone).value]

ProximityInit ==
    /\ ap_in \in {Some(i) : i \in ProximityInputs}
    /\ ap_out = None

\* The two functions applied to one price and one signal.
PollInterval ==
    /\ ap_out = None
    /\ ap_out' = Some(poll_interval(Val(ap_in)))
    /\ UNCHANGED ap_in

---------------------------------------------------------------------------
(* Asset classes: SignalNormalizer._detect_asset_class and the routing of  *)
(* PriceManager.get_prices_batch. A symbol is the sequence of its          *)
(* characters.                                                             *)

UppercaseLetters == {"A", "B", "C", "D", "E", "F", "G", "H", "I", "J", "K", "L", "M", "N", "O", "P", "Q", "R", "S", "T", "U", "V", "W", "X", "Y", "Z"}

FUTURES_SYMBOLS ==
    {<<"N", "Q">>, <<"M", "N", "Q">>,
     <<"E", "S">>, <<"M", "E", "S">>,
     <<"Y", "M">>, <<"M", "Y", "M">>,
     <<"R", "T", "Y">>, <<"M", "2", "K">>,
     <<"G", "C">>, <<"M", "G", "C">>,
     <<"C", "L">>, <<"M", "C", "L">>,
     <<"S", "I">>, <<"S", "I", "L">>,
     <<"Z", "B">>, <<"Z", "N">>,
     <<"Z", "W">>, <<"Z", "C">>}

\* ^[A-Z]{6}$
FOREX_PATTERN(symbol) ==
    Len(symbol) = 6 /\ \A i \in 1..6 : symbol[i] \in UppercaseLetters

CRYPTO_SUFFIXES == <<<<"U", "S", "D", "T">>, <<"U", "S", "D">>, <<"B", "T", "C">>, <<"E", "T", "H">>, <<"B", "U", "S", "D">>>>

\* str.endswith(suffix)
endswith(symbol, suffix) ==
    /\ Len(symbol) >= Len(suffix)
    /\ SubSeq(symbol, Len(symbol) - Len(suffix) + 1, Len(symbol)) = suffix

\* str.isalpha() of a normalized (stripped, upper-cased) symbol.
isalpha(symbol) ==
    Len(symbol) > 0 /\ \A i \in 1..Len(symbol) : symbol[i] \in UppercaseLetters

detect_asset_class(normalized_symbol) ==
    IF normalized_symbol \in FUTURES_SYMBOLS THEN "FUTURES"
    ELSE IF FOREX_PATTERN(normalized_symbol) THEN "FOREX"
    ELSE IF \E i \in 1..Len(CRYPTO_SUFFIXES) : endswith(normalized_symbol, CRYPTO_SUFFIXES[i])
    THEN "CRYPTO"
    ELSE "STOCKS"

\* get_prices_batch for one symbol of the list: the cache, or the batch the
\* symbol is put in and so the source its price is fetched from.
get_prices_batch(sym, cached) ==
    IF cached THEN "cache"
    ELSE IF \E suffix \in {<<"U", "S", "D", "T">>, <<"U", "S", "D">>, <<"B", "T", "C">>, <<"E", "T", "H">>} : endswith(sym, suffix) THEN "crypto"
    ELSE IF Len(sym) = 6 /\ isalpha(sym) THEN "forex"
    ELSE "futures"

\* Symbols of stored signals: a base and a quote currency, futures roots
\* and a stock.
SymbolBases == {<<>>, <<"E", "U", "R">>, <<"G", "B", "P">>, <<"B", "T", "C">>, <<"E", "T", "H">>, <<"S", "O", "L">>, <<"D", "O", "G", "E">>, <<"X", "A", "U">>, <<"1", "I", "N", "C", "H">>}

SymbolQuotes == {<<>>, <<"U", "S", "D">>, <<"U", "S", "D", "T">>, <<"B", "T", "C">>, <<"E", "T", "H">>, <<"B", "U", "S", "D">>, <<"J", "P", "Y">>}

NormalizedSymbols ==
    ({b \o q : b \in SymbolBases, q \in SymbolQuotes} \ {<<>>})
        \cup {<<"N", "Q">>, <<"E", "S">>, <<"M", "2", "K">>, <<"R", "T", "Y">>, <<"A", "A", "P", "L">>}

BatchInit ==
    /\ ap_in \in {Some([symbol |-> sym, cached |-> c]) :
                        sym \in NormalizedSymbols, c \in BOOLEAN}
    /\ ap_out = None

\* A stored signal's symbol, classified by the normalizer when it was
\* ingested, is looked up by the monitor's get_prices_batch.
PriceBatch ==
    /\ ap_out = None
    /\ ap_out' = Some([asset_class |-> detect_asset_class(Val(ap_in).symbol),
                       source |-> get_prices_batch(Val(ap_in).symbol, Val(ap_in).cached)])
    /\ UNCHANGED ap_in

---------------------------------------------------------------------------
(* Specifications *)

InitSM == SMInit /\ DetIdle /\ LifeIdle /\ SchedIdle /\ NotifIdle /\ KeyIdle /\ IngestIdle /\ ApIdle /\ RateIdle /\ StreamIdle /\ TaskIdle

NextSM == SMNext /\ UNCHANGED but_sm

\* A walk of the state machine from any status.
SpecSM == InitSM /\ [][NextSM]_vars

InitDetect == DetInit /\ SMIdle /\ LifeIdle /\ SchedIdle /\ NotifIdle /\ KeyIdle /\ IngestIdle /\ ApIdle /\ RateIdle /\ StreamIdle /\ TaskIdle

NextDetect ==
    \/ DetectWorker /\ UNCHANGED but_det
    \/ DetectCron /\ UNCHANGED but_det

\* The hit detector on one input.
SpecDetect == InitDetect /\ [][NextDetect]_vars

Init == LifeInit /\ tracing = FALSE /\ SMIdle /\ DetIdle /\ SchedIdle /\ NotifIdle /\ KeyIdle /\ IngestIdle /\ ApIdle /\ RateIdle /\ StreamIdle /\ TaskIdle

Next ==
    \/ MonitorFetch /\ UNCHANGED but_life
    \/ MonitorNoPrice /\ UNCHANGED but_life
    \/ \E cp \in QuotedPrices(sig) : MonitorCheck(cp) /\ UNCHANGED but_life
    \/ \E e \in EventType, p \in EventPrices(sig), ts \in EventTimestamps :
            PineScriptEvent(e, p, ts) /\ UNCHANGED but_life
    \/ \E e \in EventType : PineScriptRefused(e) /\ UNCHANGED but_life
    \/ CloseSignal /\ UNCHANGED but_life
    \/ CloseRefused /\ UNCHANGED but_life
    \/ HistoricalQuery /\ UNCHANGED but_life
    \/ \E cs \in CandleSeqs(sig) : HistoricalResolve(cs) /\ UNCHANGED but_life
    \/ HistoricalNoCandles /\ UNCHANGED but_life

\* One stored signal under all its writers: the monitor, the price-level
\* event ingress, the manual close and the historical resolver.
Spec == Init /\ [][Next]_vars

InitStored == StoredInit /\ tracing = FALSE /\ SMIdle /\ DetIdle /\ SchedIdle /\ NotifIdle /\ KeyIdle /\ IngestIdle /\ ApIdle /\ RateIdle /\ StreamIdle /\ TaskIdle

\* A signal as the structured ingress stored it, valid or not, under all the
\* writers of its row.
SpecStored == InitStored /\ [][Next]_vars

InitIngest == IngestInit /\ SMIdle /\ DetIdle /\ LifeIdle /\ SchedIdle /\ NotifIdle /\ KeyIdle /\ ApIdle /\ RateIdle /\ StreamIdle /\ TaskIdle

NextIngest ==
    \E body \in RequestBodies, x_api_key \in ApiKeys :
        ingest_tradingview(body, x_api_key) /\ UNCHANGED but_ingest

\* The structured ingress under any sequence of requests.
SpecIngest == InitIngest /\ [][NextIngest]_vars

InitValidate == ValidateInit /\ SMIdle /\ DetIdle /\ LifeIdle /\ SchedIdle /\ NotifIdle /\ KeyIdle /\ IngestIdle /\ RateIdle /\ StreamIdle /\ TaskIdle

NextValidate == Validate /\ UNCHANGED but_ap

\* The validator on one signal.
SpecValidate == InitValidate /\ [][NextValidate]_vars

InitRate == RateInit /\ SMIdle /\ DetIdle /\ LifeIdle /\ SchedIdle /\ NotifIdle /\ KeyIdle /\ IngestIdle /\ ApIdle /\ StreamIdle /\ TaskIdle

NextRate ==
    \/ wait_if_needed /\ UNCHANGED but_rate
    \/ \E k \in 1..MaxProceeded : wait_wake(k) /\ UNCHANGED but_rate
    \/ RateTick /\ UNCHANGED but_rate

\* One rate limiter and its callers.
SpecRate == InitRate /\ [][NextRate]_vars

InitStream == StreamInit /\ SMIdle /\ DetIdle /\ LifeIdle /\ SchedIdle /\ NotifIdle /\ KeyIdle /\ IngestIdle /\ ApIdle /\ RateIdle /\ TaskIdle

NextStream ==
    \/ \E outcome \in ConnectionOutcomes : stream_worker(outcome) /\ UNCHANGED but_ws
    \/ stream_sleep_done /\ UNCHANGED but_ws
    \/ stream_cancel /\ UNCHANGED but_ws

\* The worker of one subscribed symbol.
SpecStream == InitStream /\ [][NextStream]_vars

InitTask == TaskInit /\ SMIdle /\ DetIdle /\ LifeIdle /\ SchedIdle /\ NotifIdle /\ KeyIdle /\ IngestIdle /\ ApIdle /\ RateIdle /\ StreamIdle

NextTask ==
    \/ task_fetch /\ UNCHANGED but_task
    \/ \E i \in SchedIds, hit \in BOOLEAN : task_check(i, hit) /\ UNCHANGED but_task
    \/ task_update /\ UNCHANGED but_task
    \/ task_stop /\ UNCHANGED but_task

\* The monitor's task until it is stopped.
SpecTask == InitTask /\ [][NextTask]_vars

InitProximity == ProximityInit /\ SMIdle /\ DetIdle /\ LifeIdle /\ SchedIdle /\ NotifIdle /\ KeyIdle /\ IngestIdle /\ RateIdle /\ StreamIdle /\ TaskIdle

NextProximity == PollInterval /\ UNCHANGED but_ap

\* The poll interval of one signal at one price.
SpecProximity == InitProximity /\ [][NextProximity]_vars

InitBatch == BatchInit /\ SMIdle /\ DetIdle /\ LifeIdle /\ SchedIdle /\ NotifIdle /\ KeyIdle /\ IngestIdle /\ RateIdle /\ StreamIdle /\ TaskIdle

NextBatch == PriceBatch /\ UNCHANGED but_ap

\* The asset class and the price source of one symbol.
SpecBatch == InitBatch /\ [][NextBatch]_vars

InitMonitor == LifeInit /\ tracing = TRUE /\ SMIdle /\ DetIdle /\ SchedIdle /\ NotifIdle /\ KeyIdle /\ IngestIdle /\ ApIdle /\ RateIdle /\ StreamIdle /\ TaskIdle

NextMonitor ==
    \/ MonitorFetch /\ UNCHANGED but_life
    \/ MonitorNoPrice /\ UNCHANGED but_life
    \/ \E cp \in QuotedPrices(sig) : MonitorCheck(cp) /\ UNCHANGED but_life

\* One stored signal with the monitor as its only writer, the examined
\* prices recorded.
SpecMonitor == InitMonitor /\ [][NextMonitor]_vars

InitSched == SchedInit /\ SMIdle /\ DetIdle /\ LifeIdle /\ NotifIdle /\ KeyIdle /\ IngestIdle /\ ApIdle /\ RateIdle /\ StreamIdle /\ TaskIdle

NextSched ==
    \/ SchedFetch /\ UNCHANGED but_sched
    \/ \E quotes \in QuoteMaps, failing \in FailingWrites :
            SchedCheck(quotes, failing) /\ UNCHANGED but_sched
    \/ SchedTick /\ UNCHANGED but_sched

\* Several stored signals and the monitor's cycles over them.
SpecSched == InitSched /\ [][NextSched]_vars

NextSchedFair ==
    \/ SchedFetch /\ UNCHANGED but_sched
    \/ \E quotes \in FullQuoteMaps : SchedCheck(quotes, {}) /\ UNCHANGED but_sched
    \/ SchedTick /\ UNCHANGED but_sched

\* The same with a quote for every symbol in every cycle, no write failing, and the loop of
\* _run_loop never stopping: a cycle that can start does start, and a cycle
\* waiting for its prices gets them.
SpecSchedFair ==
    /\ InitSched
    /\ [][NextSchedFair]_vars
    /\ WF_vars(SchedFetch /\ UNCHANGED but_sched)
    /\ WF_vars(\E quotes \in FullQuoteMaps : SchedCheck(quotes, {}) /\ UNCHANGED but_sched)

InitNotif == NotifInit /\ SMIdle /\ DetIdle /\ LifeIdle /\ SchedIdle /\ KeyIdle /\ IngestIdle /\ ApIdle /\ RateIdle /\ StreamIdle /\ TaskIdle

NextNotif ==
    \/ \E e \in EventIds : on_signal_event(e) /\ UNCHANGED but_notif
    \/ \E d \in Deliveries : send_with_semaphore(d) /\ UNCHANGED but_notif
    \/ \E d \in Deliveries, r \in PlainResponses :
            send_response(d, r) /\ UNCHANGED but_notif
    \/ \E d \in Deliveries : send_retry(d) /\ UNCHANGED but_notif
    \/ NotifTick /\ UNCHANGED but_notif

\* The events of one provider's signals routed to the subscriptions.
SpecNotif == InitNotif /\ [][NextNotif]_vars

InitSend ==
    /\ InitNotif
    /\ \A s \in SubIds \ {1} : nf_subs[s] = Webhook("p2", TRUE, {"ENTRY_HIT"}, 0)

NextSend ==
    \/ on_signal_event(1) /\ UNCHANGED but_notif
    \/ \E d \in Deliveries : send_with_semaphore(d) /\ UNCHANGED but_notif
    \/ \E d \in Deliveries, r \in Responses :
            send_response(d, r) /\ UNCHANGED but_notif
    \/ \E d \in Deliveries : send_retry(d) /\ UNCHANGED but_notif
    \/ \E d \in Deliveries : send_cancel(d) /\ UNCHANGED but_notif
    \/ NotifTick /\ UNCHANGED but_notif

\* One event and the one delivery it can lead to, under every response,
\* the delivery's task being cancelled or not.
SpecSend == InitSend /\ [][NextSend]_vars

InitKey == KeyInit /\ SMIdle /\ DetIdle /\ LifeIdle /\ SchedIdle /\ NotifIdle /\ IngestIdle /\ ApIdle /\ RateIdle /\ StreamIdle /\ TaskIdle

NextKey ==
    \/ \E e \in EventIds, hex \in Uuids : build_payload(e, hex) /\ UNCHANGED but_key
    \/ \E e \in EventIds, s \in SubIds : send_request(e, s) /\ UNCHANGED but_key

\* The payloads of the routed events and the requests made from them.
SpecKey == InitKey /\ [][NextKey]_vars

---------------------------------------------------------------------------
(* Claims about the state machine, checked under SpecSM                    *)

\* The transition table as the claim states it.
ClaimTarget(e) ==
    CASE e = "ENTRY_HIT"         -> "ACTIVE"
      [] e = "TP1_HIT"           -> "TP1_HIT"
      [] e = "TP2_HIT"           -> "TP2_HIT"
      [] e = "TP3_HIT"           -> "TP3_HIT"
      [] e = "SL_HIT"            -> "SL_HIT"
      [] e = "MANUAL_CLOSE"      -> "CLOSED"
      [] e = "EXPIRED"           -> "CLOSED"
      [] e = "VALIDATION_FAILED" -> "INVALID"
      [] OTHER                   -> "None"

ClaimEdges ==
    {<<"PENDING", "ACTIVE">>, <<"PENDING", "INVALID">>, <<"PENDING", "CLOSED">>,
     <<"ACTIVE", "TP1_HIT">>, <<"ACTIVE", "SL_HIT">>, <<"ACTIVE", "CLOSED">>,
     <<"TP1_HIT", "TP2_HIT">>, <<"TP1_HIT", "SL_HIT">>, <<"TP1_HIT", "CLOSED">>,
     <<"TP2_HIT", "TP3_HIT">>, <<"TP2_HIT", "SL_HIT">>, <<"TP2_HIT", "CLOSED">>,
     <<"TP3_HIT", "CLOSED">>}

ClaimTerminal == {"SL_HIT", "CLOSED", "INVALID"}

ClaimLegal(s, e) == ClaimTarget(e) # s /\ <<s, ClaimTarget(e)>> \in ClaimEdges

\* C1: process_event(s, e) has did_transition = TRUE exactly when e maps to a
\* target t # s with (s -> t) a legal edge; then new_status = t and
\* is_terminal = (t is SL_HIT, CLOSED or INVALID); otherwise new_status = s.
C1_TransitionTable ==
    sm_result # None =>
        LET r == Val(sm_result)
            t == ClaimTarget(sm_event)
        IN  /\ r.did_transition <=> ClaimLegal(sm_from, sm_event)
            /\ ClaimLegal(sm_from, sm_event) =>
                    /\ r.new_status = t
                    /\ r.is_terminal = (t \in ClaimTerminal)
            /\ ~ClaimLegal(sm_from, sm_event) => r.new_status = sm_from

\* C1 witness: the edge TP2_HIT -> TP3_HIT taken, after two earlier steps.
C1_Witness ==
    /\ sm_from = "TP2_HIT"
    /\ sm_event = "TP3_HIT"
    /\ sm_result # None
    /\ Val(sm_result).did_transition
    /\ sm_current = "TP3_HIT"
    /\ sm_left = {"ACTIVE", "TP1_HIT", "TP2_HIT"}

\* C4: applying the event that was just applied a second time, to the status
\* the first application produced, changes nothing: did_transition = FALSE
\* and the status stays.
C4_Idempotent ==
    sm_result # None =>
        LET first == Val(sm_result)
            second == process_event(first.new_status, sm_event)
        IN  /\ ~second.did_transition
            /\ second.new_status = first.new_status

\* C4 witness: SL_HIT applied to ACTIVE did transition (so the second
\* application meets a status equal to its target).
C4_Witness ==
    /\ sm_from = "ACTIVE"
    /\ sm_event = "SL_HIT"
    /\ sm_result # None
    /\ Val(sm_result).did_transition
    /\ sm_current = "SL_HIT"

\* C5: from a terminal status every event is refused with the status
\* unchanged, and the walk never comes back to a status it has left.
C5_Irreversible ==
    /\ (sm_result # None /\ sm_from \in ClaimTerminal) =>
            /\ ~Val(sm_result).did_transition
            /\ Val(sm_result).new_status = sm_from
            /\ sm_current = sm_from
    /\ sm_current \notin sm_left

\* C5 witness: MANUAL_CLOSE handed to a walk that starts in SL_HIT.
C5_Witness ==
    /\ sm_from = "SL_HIT"
    /\ sm_event = "MANUAL_CLOSE"
    /\ sm_result # None
    /\ sm_current = "SL_HIT"

RefusalReasons == {"unknown_event", "already", "invalid", "terminal"}

\* C6: an event that is no legal edge from the current status, and an event
\* kind with no target status, is refused by a returned TransitionResult:
\* did_transition = FALSE, new_status the current status, a refusal reason.
C6_RefusalIsValue ==
    (sm_event # "None" /\ ~ClaimLegal(sm_from, sm_event)) =>
        /\ sm_result # None
        /\ Val(sm_result) \in [new_status : SignalStatus, did_transition : BOOLEAN,
                                reason : RefusalReasons, is_terminal : BOOLEAN]
        /\ ~Val(sm_result).did_transition
        /\ Val(sm_result).new_status = sm_from

\* C6 witness: TP2_HIT from PENDING refused as an invalid edge.
C6_Witness ==
    /\ sm_from = "PENDING"
    /\ sm_event = "TP2_HIT"
    /\ sm_result # None
    /\ Val(sm_result).reason = "invalid"
    /\ sm_current = "PENDING"

\* C6 second case: an event kind with no target status.
C6_WitnessNoTarget ==
    /\ sm_event \in {"ENTRY_REGISTERED", "PRICE_UPDATE"}
    /\ sm_result # None
    /\ Val(sm_result).reason = "unknown_event"

---------------------------------------------------------------------------
(* Claim about the hit detector, checked under SpecDetect                  *)

ClaimSLReached(a) ==
    IF a.direction = "LONG" THEN a.current_price <= a.sl ELSE a.current_price >= a.sl

ClaimReached(a, level) ==
    IF a.direction = "LONG" THEN a.current_price >= level ELSE a.current_price <= level

\* The detector's table as the claim states it.
ClaimDetect(a) ==
    CASE a.status = "PENDING" ->
            IF (a.direction = "LONG" /\ a.current_price <= a.entry_price)
               \/ (a.direction = "SHORT" /\ a.current_price >= a.entry_price)
            THEN "ENTRY_HIT" ELSE "None"
      [] a.status \in {"ACTIVE", "TP1_HIT", "TP2_HIT"} ->
            IF ClaimSLReached(a) THEN "SL_HIT"
            ELSE IF a.status = "ACTIVE" /\ ClaimReached(a, a.tp1) THEN "TP1_HIT"
            ELSE IF a.status = "TP1_HIT" /\ a.tp2 # None /\ ClaimReached(a, Val(a.tp2))
            THEN "TP2_HIT"
            ELSE IF a.status = "TP2_HIT" /\ a.tp3 # None /\ ClaimReached(a, Val(a.tp3))
            THEN "TP3_HIT"
            ELSE "None"
      [] OTHER -> "None"

---------------------------------------------------------------------------
(* Claims about the stored signal under all its writers                    *)

\* C2: once the stored status is CLOSED, SL_HIT or INVALID, no operation
\* writes status, closed_at, exit_price or r_value with a different value.
C2_TerminalFieldsFrozen ==
    [][row.status \in {"CLOSED", "SL_HIT", "INVALID"} =>
            /\ row'.status = row.status
            /\ row'.closed_at = row.closed_at
            /\ row'.exit_price = row.exit_price
            /\ row'.r_value = row.r_value]_vars

RECURSIVE FoldStatus(_, _)

\* fold(process_event, status, evs): the status after replaying evs in order.
FoldStatus(status, evs) ==
    IF evs = <<>> THEN status
    ELSE FoldStatus(process_event(status, Head(evs).event_type).new_status, Tail(evs))

\* C3: at every moment the stored status equals the fold of process_event
\* over the stored events in append order, starting from PENDING.
C3_ReplayReproducesStatus == row.status = FoldStatus("PENDING", events)

---------------------------------------------------------------------------
(* Claims about the monitor                                                *)

\* The exact value v rounds to r in units of 1/10000: |r * den - num * 10000|
\* is at most half of den.
IsRounded4(r, num, den) == 2 * Abs(r * den - num * 10000) <= den

ClaimProfit(cp) ==
    IF sig.direction = "LONG" THEN cp - sig.entry_price ELSE sig.entry_price - cp

\* What the claim says of one examination at price cp that detects an
\* event the state machine accepts.
ClaimHitWritten(cp) ==
    LET from == Val(mon.snap).status
        event_type == detect_event(from, sig.direction, cp, sig.entry_price,
                                   sig.sl, sig.tp1, sig.tp2, sig.tp3)
        tr == process_event(from, event_type)
    IN  (event_type # "None" /\ tr.did_transition) =>
            /\ Len(events') = Len(events) + 1
            /\ SubSeq(events', 1, Len(events)) = events
            /\ events'[Len(events')].event_type = event_type
            /\ events'[Len(events')].price = Some(cp)
            /\ row'.status = tr.new_status
            /\ IF tr.new_status \in {"CLOSED", "SL_HIT", "INVALID"}
               THEN /\ row'.closed_at = Some(now)
                    /\ row'.close_reason = Some(tr.new_status)
                    /\ row'.exit_price = Some(cp)
                    /\ row'.r_value # None
                    /\ IsRounded4(Val(row'.r_value), ClaimProfit(cp), Abs(sig.entry_price - sig.sl))
               ELSE /\ row'.closed_at = row.closed_at
                    /\ row'.close_reason = row.close_reason
                    /\ row'.exit_price = row.exit_price
                    /\ row'.r_value = row.r_value

EventTypes(evs) == [i \in 1..Len(evs) |-> evs[i].event_type]

ClaimLong == CanonicalSignal("LONG", 100, 95, 105, Some(110), Some(115))

\* C9: for LONG entry=100 sl=95 tp1=105 tp2=110 tp3=115, examinations at
\* 100, 106, 94 produce ENTRY_HIT (ACTIVE), TP1_HIT, then SL_HIT (terminal),
\* and the outcome is PARTIAL with tp_hits=[1] and r_value=-1.0.
C9_LongHappyPath ==
    sig = ClaimLong =>
        /\ examined = <<100>> =>
                /\ EventTypes(events) = <<"ENTRY_REGISTERED", "ENTRY_HIT">>
                /\ row.status = "ACTIVE"
        /\ examined = <<100, 106>> =>
                /\ EventTypes(events) = <<"ENTRY_REGISTERED", "ENTRY_HIT", "TP1_HIT">>
                /\ row.status = "TP1_HIT"
        /\ examined = <<100, 106, 94>> =>
                /\ EventTypes(events) = <<"ENTRY_REGISTERED", "ENTRY_HIT", "TP1_HIT", "SL_HIT">>
                /\ row.status = "SL_HIT"
                /\ is_terminal(row.status)
                /\ LET outcome == outcome_resolve_signal(sig, events) IN
                        /\ outcome.result = "PARTIAL"
                        /\ outcome.tp_hits = <<1>>
                        /\ outcome.r_value = Some(-10000)
                /\ row.r_value = Some(-10000)

ClaimShort == CanonicalSignal("SHORT", 11000, 11050, 10950, Some(10900), Some(10850))

\* C10: for SHORT entry=1.1000 sl=1.1050 tp1=1.0950 tp2=1.0900 tp3=1.0850,
\* examinations at 1.1000, 1.0949, 1.0899, 1.0849 produce ACTIVE, TP1_HIT,
\* TP2_HIT, TP3_HIT, after which the signal is terminal (closed, no longer
\* monitored) with r_value = 3.0.
C10_ShortFullWin ==
    sig = ClaimShort =>
        /\ examined = <<11000>> => row.status = "ACTIVE"
        /\ examined = <<11000, 10949>> => row.status = "TP1_HIT"
        /\ examined = <<11000, 10949, 10899>> => row.status = "TP2_HIT"
        /\ examined = <<11000, 10949, 10899, 10849>> =>
                /\ row.status = "TP3_HIT"
                /\ is_terminal(row.status)
                /\ row.closed_at # None
                /\ row.status \notin MonitoredStatuses
                /\ row.r_value = Some(30000)

---------------------------------------------------------------------------
(* Claims about the stored r_value                                         *)

\* C11: in every reachable state, a signal whose status is SL_HIT and whose
\* exit_price equals its sl has r_value exactly -1.0, whichever writer
\* recorded the stop-loss hit.
C11_StopLossIsMinusOneR ==
    (row.status = "SL_HIT" /\ row.exit_price = Some(sig.sl)) =>
        row.r_value = Some(-10000)

---------------------------------------------------------------------------
(* Claims about the monitor's schedule                                     *)

ClaimMonitorable == {"PENDING", "ACTIVE", "TP1_HIT", "TP2_HIT", "TP3_HIT"}

ClaimDue == {i \in SchedIds : /\ sc_rows[i].status \in ClaimMonitorable
                              /\ sc_rows[i].next_poll_at <= sc_now}

\* What the claim says of the rows a cycle has just taken.
ClaimTakenRight(taken) ==
    LET ids == {taken[k].id : k \in 1..Len(taken)} IN
    /\ ids \subseteq ClaimDue
    /\ Cardinality(ids) = Len(taken)
    /\ Len(taken) = Min(sc_limit, Cardinality(ClaimDue))
    /\ \A i, j \in 1..Len(taken) :
            i < j => sc_rows[taken[i].id].next_poll_at <= sc_rows[taken[j].id].next_poll_at
    /\ \A t \in ids, u \in ClaimDue \ ids :
            sc_rows[t].next_poll_at <= sc_rows[u].next_poll_at

\* C12: each monitor cycle takes only signals whose status is monitorable
\* and whose next_poll_at <= now, at most the cap, ordered by next_poll_at;
\* when more than the cap are due, those with the smallest next_poll_at.
C12_FetchDueOldestFirst ==
    [][SchedFetch => ClaimTakenRight(sc_taken')]_vars

\* A cycle waiting for its prices that took fewer rows than were due, and
\* left behind a row with a later next_poll_at than those it took.
C12_Witness ==
    /\ sc_pc = "fetched"
    /\ Len(sc_taken) = sc_limit
    /\ \E u \in SchedIds :
        /\ u \in ClaimDue
        /\ \A k \in 1..Len(sc_taken) :
            /\ sc_taken[k].id # u
            /\ sc_taken[k].row.next_poll_at < sc_rows[u].next_poll_at

\* C13: under fair execution of monitor cycles and with prices available,
\* every open signal that is due is eventually examined by the monitor.
C13_DueEventuallyExamined ==
    \A i \in SchedIds :
        (i \in ClaimDue) ~> (\E k \in 1..Len(sc_examined) : sc_examined[k] = i)

ClaimInterval(zone) ==
    CASE zone = "CLOSE" -> 5
      [] zone = "MID"   -> 15
      [] zone = "FAR"   -> 60

\* What the claim says of a cycle's examinations under the quotes it got.
ClaimNextPollWritten(quotes) ==
    \A k \in 1..Len(sc_examined') :
        LET id == sc_examined'[k]
            cp == Val(quotes[sc_rows[id].symbol])
            s == SchedSignal
            zone == calculate_proximity(cp, s.entry_price, s.sl,
                                        <<s.tp1>> \o s.tp2 \o s.tp3, s.direction).zone
        IN  /\ sc_rows'[id].next_poll_at = sc_now + ClaimInterval(zone)
            /\ sc_rows'[id].next_poll_at > sc_now

\* C14: each time the monitor examines a signal for which a price is
\* available it writes next_poll_at = now + the zone's interval (CLOSE 5 s,
\* MID 15 s, FAR 60 s), so the signal is not due again until then.
C14_NextPollWritten ==
    [][\A quotes \in QuoteMaps : SchedCheck(quotes, {}) => ClaimNextPollWritten(quotes)]_vars

---------------------------------------------------------------------------
(* Claims about the router and the delivery worker                         *)

ClaimMatches(e, s) ==
    /\ nf_subs[s].provider_id = nf_events[e].provider_id
    /\ nf_subs[s].is_active
    /\ nf_events[e].event_type \in nf_subs[s].event_types
    /\ nf_subs[s].consecutive_failures < 10

\* C15: for any event, the router hands to the delivery worker only the
\* owning provider's active subscriptions whose event kinds contain the
\* event's kind and whose consecutive_failures < 10; a subscription with
\* consecutive_failures >= 10 is handed nothing, and for a subscription
\* handed nothing no HTTP request is made and no delivery-log row written.
C15_RouterHandsOnlyMatching ==
    [][/\ \A e \in EventIds : on_signal_event(e) =>
            \A s \in SubIds :
                /\ nf_dels'[<<e, s>>].pc # "none" => ClaimMatches(e, s)
                /\ nf_subs[s].consecutive_failures >= 10 =>
                        nf_dels'[<<e, s>>].pc = "none"
       /\ \A d \in Deliveries : nf_dels'[d].pc = "none" =>
            /\ nf_dels'[d].sent = <<>>
            /\ nf_log'[d] = <<>>
      ]_vars

\* The first event was routed past a subscription with ten failures and
\* delivered to the other one.
C15_Witness ==
    /\ nf_events[1].routed
    /\ nf_subs[1].consecutive_failures >= 10
    /\ nf_dels[<<1, 1>>].pc = "none"
    /\ nf_dels[<<1, 2>>].pc = "ok"
    /\ nf_log[<<1, 2>>] # <<>>

\* C16: once a subscription's stored consecutive_failures is >= 10, no step
\* of the router or the delivery worker lowers it, and an event routed
\* while it is >= 10 leads to no delivery to the subscription; also when
\* other deliveries to the subscription were in flight when it reached 10.
C16_CircuitStaysBroken ==
    [][\A s \in SubIds : nf_subs[s].consecutive_failures >= 10 =>
            /\ nf_subs'[s].consecutive_failures >= nf_subs[s].consecutive_failures
            /\ \A e \in EventIds : on_signal_event(e) => nf_dels'[<<e, s>>].pc = "none"
      ]_vars

\* The sleep that precedes the k-th request, counted from the start of the
\* delivery: 0, 1, 1 + 5, 1 + 5 + 30.
ClaimSlept(k) ==
    CASE k = 1 -> 0
      [] k = 2 -> 1
      [] k = 3 -> 6
      [] k = 4 -> 36

\* What the claim says of every delivery but the offsets of the requests.
ClaimAttempts(d) ==
    LET del == nf_dels[d]
        log == nf_log[d]
    IN  /\ Len(del.sent) <= 4
        /\ Len(log) <= Len(del.sent)
        /\ \A k \in 1..Len(del.sent) :
                k > 1 => del.sent[k] - del.sent[k - 1] = RETRY_DELAYS[k - 1]
        /\ \A k \in 1..Len(log) :
                log[k] < 300 => (k = Len(log) /\ del.pc = "ok")
        /\ del.pc = "ok" => (log # <<>> /\ log[Len(log)] < 300)
        /\ del.pc = "failed" => Len(del.sent) = 4
        /\ del.pc = "sleep" => Len(del.sent) < 4

\* The endpoint replied 500, 500, 200 to the three requests made.
ClaimScenario(d) ==
    /\ Len(nf_dels[d].sent) = 3
    /\ nf_log[d] = <<500, 500, 200>>

\* C17 as stated: at most four attempts, sleeps of 1 s, 5 s, 30 s before
\* the second, third and fourth, no attempt after a status < 300; for the
\* replies 500, 500, 200 exactly three attempts at offsets 0, 1, 5 s, the
\* delivery a success and consecutive_failures 0.
C17_AttemptsAtOffsets015 ==
    \A d \in Deliveries :
        /\ ClaimAttempts(d)
        /\ ClaimScenario(d) =>
            /\ nf_dels[d].sent = <<0, 1, 5>>
            /\ nf_dels[d].pc = "ok"
            /\ nf_subs[d[2]].consecutive_failures = 0

\* C17 amended: the same, the three attempts being at offsets 0, 1, 6 s of
\* sleep (the third follows the 1 s and the 5 s sleep).
C17_AttemptsAfterSleeps ==
    \A d \in Deliveries :
        /\ ClaimAttempts(d)
        /\ \A k \in 1..Len(nf_dels[d].sent) : nf_dels[d].sent[k] = ClaimSlept(k)
        /\ ClaimScenario(d) =>
            /\ nf_dels[d].sent = <<0, 1, 6>>
            /\ nf_dels[d].pc = "ok"
            /\ nf_subs[d[2]].consecutive_failures = 0

\* A delivery handed over with nine failures on record got 500, 500, 200.
C17_Witness ==
    \E d \in Deliveries :
        /\ ClaimScenario(d)
        /\ nf_dels[d].config = 9
        /\ nf_dels[d].pc = "ok"
        /\ nf_subs[d[2]].consecutive_failures = 0

\* C18: a delivery that ends in success writes consecutive_failures = 0 and
\* last_delivery_at for its subscription; a delivery whose attempts all fail
\* increases the stored consecutive_failures by exactly 1, at its end and
\* not at each attempt; the other subscriptions' counters are unchanged.
C18_CountersWritten ==
    [][\A d \in Deliveries, r \in Responses : send_response(d, r) =>
            LET s == d[2] IN
            /\ nf_dels'[d].pc = "ok" =>
                    /\ nf_subs'[s].consecutive_failures = 0
                    /\ nf_subs'[s].last_delivery_at = Some(nf_now)
            /\ nf_dels'[d].pc = "failed" =>
                    nf_subs'[s].consecutive_failures = nf_subs[s].consecutive_failures + 1
            /\ nf_dels'[d].pc = "sleep" => nf_subs'[s] = nf_subs[s]
            /\ \A t \in SubIds \ {s} : nf_subs'[t] = nf_subs[t]
      ]_vars

\* C19: at no time are more than max_concurrent deliveries in flight,
\* across all the events being routed.
C19_BoundedInFlight ==
    /\ Cardinality(InFlight(nf_dels)) <= MaxConcurrent
    /\ nf_sem = MaxConcurrent - Cardinality(InFlight(nf_dels))

\* The pool is full, with deliveries of two events in flight, and a
\* delivery waits.
C19_Witness ==
    /\ Cardinality(InFlight(nf_dels)) = MaxConcurrent
    /\ \E d \in Deliveries : nf_dels[d].pc = "queued"
    /\ \E d1, d2 \in InFlight(nf_dels) : d1[1] # d2[1]

\* C20: a delivery that failed and sleeps before a retry never delays the
\* first attempt of a delivery to another subscription: a delivery that
\* has not made its first attempt is free to make it.
C20_SleepDelaysNoFirstAttempt ==
    \A d, d2 \in Deliveries :
        (/\ nf_dels[d].pc = "queued"
         /\ nf_dels[d2].pc = "sleep"
         /\ d2[2] # d[2]) => nf_sem > 0

---------------------------------------------------------------------------
(* Claim about the idempotency key                                         *)

\* C21: every request of every delivery of one event carries the same
\* X-Idempotency-Key, equal to the event_id inside the signed payload, and
\* the requests of two different events never carry the same key.
C21_OneKeyPerEvent ==
    \A r1, r2 \in ik_requests :
        /\ r1.key = r1.event_id
        /\ SubSeq(r1.content, 1, Len(r1.event_id)) = r1.event_id
        /\ r1.event = r2.event => r1.key = r2.key
        /\ r1.event # r2.event => r1.key # r2.key

---------------------------------------------------------------------------
(* Claim about cancelled deliveries                                        *)

\* C22: a delivery cancelled before or between its attempts does not
\* increment the subscription's consecutive_failures, neither when it is
\* cancelled nor afterwards.
C22_CancelWritesNoFailure ==
    [][\A d \in Deliveries :
            /\ send_cancel(d) => nf_subs' = nf_subs
            /\ nf_dels[d].pc = "cancelled" =>
                    /\ nf_dels'[d] = nf_dels[d]
                    /\ nf_subs'[d[2]] = nf_subs[d[2]]
      ]_vars

\* A delivery cancelled after a failed attempt, the stored count as handed.
C22_Witness ==
    \E d \in Deliveries :
        /\ nf_dels[d].pc = "cancelled"
        /\ nf_dels[d].attempt >= 1
        /\ nf_log[d] # <<>>
        /\ nf_subs[d[2]].consecutive_failures = nf_dels[d].config

---------------------------------------------------------------------------
(* Claims about the events of a stored signal                              *)

\* C23: every lifecycle event persisted on a successful transition, by the
\* monitor or by the price-level event ingress, is emitted to the
\* notification router.
C23_PersistedEventsEmitted ==
    \A k \in 1..Len(events) :
        events[k].source \in {"POLLING", "PINESCRIPT"} =>
            \E j \in 1..Len(notified) :
                /\ notified[j].event_type = events[k].event_type
                /\ Some(notified[j].price) = events[k].price

\* C24: for one signal the stored events are ordered by event_time in the
\* order they were appended: every appended event's event_time is at least
\* the event_time of every event already stored.
C24_EventTimesFollowAppendOrder ==
    \A j, k \in 1..Len(events) :
        j < k => events[j].event_time <= events[k].event_time

\* C25: a signal that fails validation is persisted with status INVALID, and
\* from then on no event is ever recorded for it and the monitor never
\* examines it.
C25_InvalidSignalStaysSilent ==
    ~check_price_sanity(sig) => (events = <<>> /\ mon.pc = "idle")

---------------------------------------------------------------------------
(* Claims about the structured ingress                                     *)

\* A body that cannot be parsed, or that lacks one of the fields symbol,
\* direction, entry, sl, tp1.
ClaimMalformed(body) ==
    \/ body.json = "invalid"
    \/ /\ body.json = "object"
       /\ None \in {body.symbol, body.direction, body.entry, body.sl, body.tp1}

\* C26: a structured-ingress request whose body cannot be parsed or lacks a
\* required field (symbol, direction, entry, sl, tp1) is rejected with HTTP
\* 400 or 422 and persists nothing: no signal row, no event row, no
\* provider row.
C26_MalformedRejectedUnpersisted ==
    [][\A body \in RequestBodies, x_api_key \in ApiKeys :
          (ingest_tradingview(body, x_api_key) /\ ClaimMalformed(body)) =>
              /\ ig_response' \in {Some(400), Some(422)}
              /\ ig_signals' = ig_signals
              /\ ig_events' = ig_events
              /\ ig_providers' = ig_providers]_vars

---------------------------------------------------------------------------
(* Claims about refused events                                             *)

\* Nothing of the signal is rewritten and nothing is recorded or emitted.
ClaimDropped ==
    /\ events' = events
    /\ notified' = notified
    /\ row'.status = row.status
    /\ row'.closed_at = row.closed_at
    /\ row'.exit_price = row.exit_price
    /\ row'.r_value = row.r_value

\* The monitor holds a fetched row, detects an event at this price and the
\* state machine refuses it.
ClaimMonitorRefuses(cp) ==
    /\ mon.pc = "fetched"
    /\ LET st == Val(mon.snap).status
           e == detect_event(st, sig.direction, cp, sig.entry_price, sig.sl,
                             sig.tp1, sig.tp2, sig.tp3)
       IN  e # "None" /\ ~process_event(st, e).did_transition

---------------------------------------------------------------------------
(* Claims about one monitor cycle                                          *)

ClaimExamined(ids) == {ids[k] : k \in 1..Len(ids)}

\* What the claim says of a cycle in which some taken symbol has no price.
ClaimUnpricedSkipped(quotes) ==
    (\E k \in 1..Len(sc_taken) : quotes[sc_taken[k].row.symbol] = None) =>
        \A k \in 1..Len(sc_taken) :
            LET id == sc_taken[k].id IN
            IF quotes[sc_taken[k].row.symbol] = None
            THEN /\ sc_rows'[id] = sc_rows[id]
                 /\ id \notin ClaimExamined(sc_examined')
                 /\ id \in ClaimDue => sc_rows'[id].next_poll_at <= sc_now'
            ELSE id \in ClaimExamined(sc_examined')

\* C28: in a monitor cycle, when no price is obtained for a symbol, every
\* due signal of that symbol is skipped and left unchanged, it remains due
\* for the next cycle, and the due signals of the other symbols in the same
\* cycle are still examined.
C28_UnpricedSkippedOthersExamined ==
    [][\A quotes \in QuoteMaps : SchedCheck(quotes, {}) => ClaimUnpricedSkipped(quotes)]_vars

\* C29: when a persistence write fails while the monitor is handling one
\* signal, the monitor continues with the next due signal: the remaining
\* due signals of the same cycle are still examined in that cycle.
C29_WriteFailureOthersExamined ==
    [][\A quotes \in FullQuoteMaps, i \in SchedIds :
          (SchedCheck(quotes, {i}) /\ \E k \in 1..Len(sc_taken) : sc_taken[k].id = i) =>
              \A k \in 1..Len(sc_taken) : sc_taken[k].id \in ClaimExamined(sc_examined')]_vars

---------------------------------------------------------------------------
(* Claims about terminal signals and the monitor                           *)

\* C30: a signal with status CLOSED, SL_HIT or INVALID is removed from the
\* schedule: from the moment its stored status is terminal the monitor
\* writes nothing to its row and produces no event for it, also when
\* another writer closed it after the monitor had fetched its due list.
C30_MonitorLeavesTerminalAlone ==
    [][\A cp \in QuotedPrices(sig) :
          (MonitorCheck(cp) /\ row.status \in {"CLOSED", "SL_HIT", "INVALID"}) =>
              (row' = row /\ events' = events)]_vars

---------------------------------------------------------------------------
(* Claims about the validator                                              *)

\* The level ordering for the signal's direction; tp3 needs tp2.
ClaimOrdered(s) ==
    /\ s.tp3 # None => s.tp2 # None
    /\ IF s.direction = "LONG"
       THEN /\ s.sl < s.entry_price /\ s.entry_price < s.tp1
            /\ s.tp2 # None => s.tp1 < Val(s.tp2)
            /\ (s.tp2 # None /\ s.tp3 # None) => Val(s.tp2) < Val(s.tp3)
       ELSE /\ s.sl > s.entry_price /\ s.entry_price > s.tp1
            /\ s.tp2 # None => s.tp1 > Val(s.tp2)
            /\ (s.tp2 # None /\ s.tp3 # None) => Val(s.tp2) > Val(s.tp3)

\* C31: every signal the validator accepts satisfies the level ordering for
\* its direction; a signal with entry = sl is rejected and a signal with tp3
\* present while tp2 is absent is rejected.
C31_AcceptedSignalsOrdered ==
    ap_out = Some(TRUE) => ClaimOrdered(Val(ap_in).signal)

---------------------------------------------------------------------------
(* Claims about a signal processed twice                                   *)

ClaimLifecycleKinds == {"ENTRY_HIT", "TP1_HIT", "TP2_HIT", "TP3_HIT", "SL_HIT"}

\* C32: for every lifecycle event kind at most one event of that kind is
\* ever recorded for a signal, also when the signal is processed twice, by
\* the monitor and the price-level ingress interleaved, each acting on its
\* own earlier read of the status.
C32_OneEventPerKind ==
    \A kind \in ClaimLifecycleKinds :
        Cardinality({k \in 1..Len(events) : events[k].event_type = kind}) <= 1

---------------------------------------------------------------------------
(* Claims about the rate limiter                                           *)

\* C33: in any rolling window of one minute at most max_per_minute calls of
\* wait_if_needed are allowed to proceed, also after a saturated wait has
\* ended and with several callers blocked at the same time.
C33_AtMostLimitPerWindow ==
    \A t \in 0..MaxRateNow :
        Cardinality({k \in 1..Len(rl_proceeded) :
                        rl_proceeded[k] > t - Minute /\ rl_proceeded[k] <= t}) <= MaxPerMinute

---------------------------------------------------------------------------
(* Claims about the streaming adapter                                      *)

\* C34: after the k-th consecutive failed or dropped connection the worker
\* sleeps RECONNECT_DELAYS[min(k, 6)] seconds before connecting again; it
\* never reconnects without a delay after a failure.
C34_BackoffBeforeReconnect ==
    (ws_pc = "connect" /\ ws_failures > 0) =>
        ws_slept = Some(RECONNECT_DELAYS[Min(ws_failures - 1, 6) + 1])

---------------------------------------------------------------------------
(* Claims about the monitor's shutdown                                     *)

\* C35: when the monitor is stopped, cancellation never takes effect
\* between the write of a signal's event and the write of its status
\* update: no signal is left with an event recorded and its status not
\* updated.
C35_StopBetweenSignals ==
    mt_pc = "cancelled" => \A i \in SchedIds : mt_updates[i] = mt_events[i]

\* C35 witness: the task was stopped after it had recorded hits.
C35_Witness ==
    /\ mt_pc = "cancelled"
    /\ \E i \in SchedIds : mt_events[i] > 0

---------------------------------------------------------------------------
(* Claims about the poll interval                                          *)

\* The levels of a signal: sl, tp1, and tp2, tp3 when present.
ClaimLevels(sg) ==
    {sg.sl, sg.tp1} \cup {Val(o) : o \in {sg.tp2, sg.tp3} \ {None}}

\* min_distance: the least |price - level|.
ClaimMinDistance(input) ==
    CHOOSE d \in {Abs(input.current_price - l) : l \in ClaimLevels(input.signal)} :
        \A l \in ClaimLevels(input.signal) : d <= Abs(input.current_price - l)

\* range = |tp1 - sl|.
ClaimRange(input) == Abs(input.signal.tp1 - input.signal.sl)

---------------------------------------------------------------------------
(* Claims about overlapping deliveries                                     *)

\* C37: of two deliveries to one subscription that overlap, the stored
\* consecutive_failures reflects both outcomes in the order they complete:
\* the second of two failures leaves it 2 above the value both started
\* from, and a failure that completes after the other's success leaves 1.
C37_NoUpdateLost ==
    [][\A d \in Deliveries, o \in Deliveries :
            (/\ d[2] = o[2] /\ d # o
             /\ nf_dels[d].pc # "failed" /\ nf_dels'[d].pc = "failed"
             /\ nf_dels[o].pc \in {"failed", "ok"}
             /\ nf_dels[o].config = nf_dels[d].config) =>
                nf_subs'[d[2]].consecutive_failures =
                    IF nf_dels[o].pc = "failed" THEN nf_dels[d].config + 2 ELSE 1
      ]_vars

---------------------------------------------------------------------------
(* Claims about the detector and the state machine together                *)

\* C38: an event the hit detector returns for a status is accepted by the
\* state machine from that status; for TP3_HIT and for the terminal
\* statuses the detector returns no event.
C38_DetectedEventsAccepted ==
    det_done =>
        LET status == Val(det_in).status IN
        /\ det_out # "None" => process_event(status, det_out).did_transition
        /\ (status = "TP3_HIT" \/ is_terminal(status)) => det_out = "None"

\* C38 witness: the monitor's detector returned TP3_HIT for a signal in
\* TP2_HIT, and the state machine moves it to TP3_HIT.
C38_Witness ==
    /\ det_done
    /\ det_impl = "worker"
    /\ Val(det_in).status = "TP2_HIT"
    /\ det_out = "TP3_HIT"
    /\ process_event("TP2_HIT", det_out).new_status = "TP3_HIT"

---------------------------------------------------------------------------
(* Claims about the closing fields of the stored row                       *)

\* C39: in every reachable state a row whose status is SL_HIT or CLOSED has
\* closed_at and close_reason set, and a row whose status is PENDING,
\* ACTIVE, TP1_HIT or TP2_HIT has closed_at unset.
C39_ClosedFieldsFollowStatus ==
    /\ row.status \in {"SL_HIT", "CLOSED"} =>
            (row.closed_at # None /\ row.close_reason # None)
    /\ row.status \in {"PENDING", "ACTIVE", "TP1_HIT", "TP2_HIT"} =>
            row.closed_at = None

---------------------------------------------------------------------------
(* Claims about the routing of symbols to price sources                    *)

\* C40: the batch routing of a symbol agrees with the normalizer's asset
\* class: a symbol the normalizer calls FOREX (six letters, like EURUSD) is
\* fetched from the forex source and not from the crypto source, a CRYPTO
\* symbol from the crypto source, a FUTURES symbol from the futures source.
C40_RoutingAgreesWithAssetClass ==
    (ap_out # None /\ ~Val(ap_in).cached) =>
        LET out == Val(ap_out) IN
        /\ FOREX_PATTERN(Val(ap_in).symbol) => out.asset_class = "FOREX"
        /\ out.asset_class = "FOREX" => out.source = "forex"
        /\ out.asset_class = "CRYPTO" => out.source = "crypto"
        /\ out.asset_class = "FUTURES" => out.source = "futures"

===========================================================================
